---- MODULE Spec2Model ----
(***************************************************************************)
(* Model of the spendah backend: the PII tokenization service              *)
(* (app/services/tokenization_service.py), its token store                 *)
(* (app/models/token_map.py) and the AI import pipeline                    *)
(* (app/services/import_service.py, app/services/ai_service.py).           *)
(*                                                                         *)
(* Strings are sequences of atoms.  An atom is one character (a digit, a   *)
(* blank, "_", "*", a single letter) or a run of two or more letters       *)
(* written as one word ("VENMO", "MERCHANT").  Two adjacent word atoms     *)
(* stand for the concatenation of their letters.                           *)
(***************************************************************************)
EXTENDS Naturals, Integers, Sequences, FiniteSets, TLC

VARIABLES
    token_maps,     \* table token_maps: rows in insertion (id) order
    date_shifts,    \* table date_shifts: rows (primary key id)
    svc,            \* TokenizationService instances: _cache, _reverse_cache, _date_shift
    pc,             \* position of each instance inside its current call
    last,           \* the last tokenize/detokenize call that ended: who, what, result
    returned,       \* every (instance, op, argument, token) a tokenize call returned
    dlast,          \* the last shift_date/unshift_date call that ended
    dprev,          \* the date call that ended before `dlast`
    fmt,            \* the token-minting step on its own: store count in, token out
    imp,            \* imports: session autoflush, and per import id stage, batch, counters
    transactions,   \* table transactions
    prompts,        \* <<import id, prompt>> handed to the AI client, not yet answered
    privacy,        \* table privacy_settings (singleton row)
    tlast,          \* the last tokenize_transaction_for_ai / get_unknown_merchants call
    hlast,          \* the last two generate_transaction_hash calls, older first
    nlast,          \* the last calculate_next_expected call
    recurring_groups \* table recurring_groups: rows in insertion order

vars == <<token_maps, date_shifts, svc, pc, last, returned, dlast, dprev, fmt, imp, transactions,
          prompts, privacy, tlast, hlast, nlast, recurring_groups>>

-----------------------------------------------------------------------------
(* Bounds of the model *)

MaxRows == 3

\* the largest number of rows of one type in the counting specification
MaxCount == 10000

Inst == {1, 2}

-----------------------------------------------------------------------------
(* Strings *)

Digit == {"0", "1", "2", "3", "4", "5", "6", "7", "8", "9"}

LowerAtoms == {"w", "f", "c", "venmo", "john"}

UpperAtoms == {"W", "F", "C", "VENMO", "ZELLE", "PAYPAL", "CASH", "APP", "PAYMENT",
               "TO", "FROM", "JOHN", "SMITH", "MERCHANT", "ACCOUNT", "PERSON"}

\* str.upper(), atom by atom
UpperAtom(a) ==
    CASE a = "w" -> "W"
      [] a = "f" -> "F"
      [] a = "c" -> "C"
      [] a = "venmo" -> "VENMO"
      [] a = "john" -> "JOHN"
      [] OTHER -> a

Upper(s) == [k \in 1..Len(s) |-> UpperAtom(s[k])]

IsSpace(a) == a = " "

RECURSIVE LStrip(_)
LStrip(s) == IF s # <<>> /\ IsSpace(Head(s)) THEN LStrip(Tail(s)) ELSE s

RECURSIVE RStrip(_)
RStrip(s) ==
    IF s # <<>> /\ IsSpace(s[Len(s)]) THEN RStrip(SubSeq(s, 1, Len(s) - 1)) ELSE s

\* str.strip()
Strip(s) == RStrip(LStrip(s))

\* a variant of _normalize that forgets to fold case
NormalizeNoUpper(value) == Strip(value)

\* TokenizationService._normalize: value.strip().upper()
Normalize(value) == Upper(Strip(value))

\* the character of one decimal digit
Digit10(d) ==
    CASE d = 0 -> "0" [] d = 1 -> "1" [] d = 2 -> "2" [] d = 3 -> "3" [] d = 4 -> "4"
      [] d = 5 -> "5" [] d = 6 -> "6" [] d = 7 -> "7" [] d = 8 -> "8" [] OTHER -> "9"

\* str(n): the decimal digits of n, most significant first
RECURSIVE Digits(_)
Digits(n) ==
    IF n < 10 THEN <<Digit10(n)>> ELSE Digits(n \div 10) \o <<Digit10(n % 10)>>

RECURSIVE Zeros(_)
Zeros(n) == IF n <= 0 THEN <<>> ELSE <<"0">> \o Zeros(n - 1)

\* format spec "0{width}d": zero-padded to at least `width` digits
ZeroPad(n, width) == Zeros(width - Len(Digits(n))) \o Digits(n)

-----------------------------------------------------------------------------
(* Token store: app/models/token_map.py *)

\* class TokenType
TokenType == {"merchant", "account", "person"}

\* the literal prefix of each token type's f-string
Prefix(token_type) ==
    CASE token_type = "merchant" -> <<"MERCHANT", "_">>
      [] token_type = "account" -> <<"ACCOUNT", "_">>
      [] OTHER -> <<"PERSON", "_">>

\* the pad width of each token type's f-string: :04d, :03d, :03d
PadWidth(token_type) == IF token_type = "merchant" THEN 4 ELSE 3

\* f"MERCHANT_{token_num:04d}", f"ACCOUNT_{token_num:03d}", f"PERSON_{token_num:03d}"
FormatToken(token_type, token_num) ==
    Prefix(token_type) \o ZeroPad(token_num, PadWidth(token_type))

\* a count that ignores the type filter
CountAllRows(rows, token_type) == Len(rows) + 1

\* _get_next_token_number: count of the rows of this type, plus one
NextTokenNumber(rows, token_type) ==
    Cardinality({k \in 1..Len(rows) : rows[k].token_type = token_type}) + 1

\* db.query(TokenMap).filter(token_type ==, normalized_value ==).first():
\* index of the first matching row, 0 for None
FindExisting(rows, token_type, normalized) ==
    LET hits == {k \in 1..Len(rows) : /\ rows[k].token_type = token_type
                                      /\ rows[k].normalized_value = normalized}
    IN  IF hits = {} THEN 0 ELSE CHOOSE k \in hits : \A j \in hits : k <= j

\* an insert on a column without the unique index
InsertUnchecked(rows, row) == FALSE

\* Column token: unique=True.  TRUE when inserting `row` raises IntegrityError
TokenConflict(rows, row) == \E k \in 1..Len(rows) : rows[k].token = row.token

\* TokenMap(token_type=, original_value=, normalized_value=, token=, metadata_=)
TokenMapRow(token_type, original_value, normalized, token, metadata) ==
    [token_type |-> token_type, original_value |-> original_value,
     normalized_value |-> normalized, token |-> token, metadata_ |-> metadata]

\* dict item assignment d[k] = v
Put(d, k, v) == [x \in (DOMAIN d) \cup {k} |-> IF x = k THEN v ELSE d[x]]

EmptyDict == [x \in {} |-> <<>>]

\* the metadata dict as a set of (key, value) pairs; None is the empty set
\* (an empty dict is never stored: `metadata if metadata else None`)
NoneMeta == {}

\* Optional[str] None and the empty string are both falsy
NoneStr == <<>>

\* tokenize_merchant lines 105-109
MerchantMetadata(category, subcategory) ==
    (IF category # NoneStr THEN {<<"category", category>>} ELSE {})
    \cup (IF subcategory # NoneStr THEN {<<"subcategory", subcategory>>} ELSE {})

\* tokenize_account line 151
AccountMetadata(account_type) ==
    IF account_type # NoneStr THEN {<<"account_type", account_type>>} ELSE NoneMeta

-----------------------------------------------------------------------------
(* TokenizationService: app/services/tokenization_service.py *)

\* Optional[int] None of self._date_shift
NoneShift == 0

\* what a call gave back: a returned string, or a raised exception
Returned(value) == [status |-> "returned", value |-> value]
Raised(name) == [status |-> "raised", value |-> <<name>>]
Call(i, op, arg, metadata, ret) ==
    [inst |-> i, op |-> op, arg |-> arg, metadata |-> metadata, ret |-> ret]
NoCall == Call(0, "none", <<>>, {}, [status |-> "none", value |-> <<>>])

\* _load_caches: every row, in query order; a later row overwrites an earlier one
RECURSIVE LoadCaches(_)
LoadCaches(rows) ==
    IF rows = <<>> THEN [cache |-> EmptyDict, reverse_cache |-> EmptyDict]
    ELSE LET t == rows[Len(rows)]
             r == LoadCaches(SubSeq(rows, 1, Len(rows) - 1))
         IN  [cache |-> Put(r.cache, <<t.token_type, t.normalized_value>>, t.token),
              reverse_cache |-> Put(r.reverse_cache, t.token, t.original_value)]

\* __init__: empty caches, _load_caches(), _date_shift = None
NewService(rows) ==
    [cache |-> LoadCaches(rows).cache,
     reverse_cache |-> LoadCaches(rows).reverse_cache,
     date_shift |-> NoneShift]

\* a lookup that forgets to normalize the name
LookupRaw(rows, s, token_type, value) ==
    LET key == <<token_type, value>>
        k == FindExisting(rows, token_type, value)
    IN  IF key \in DOMAIN s.cache
        THEN [found |-> TRUE, svc |-> s, token |-> s.cache[key]]
        ELSE IF k # 0
        THEN [found |-> TRUE,
              svc |-> [s EXCEPT !.cache = Put(@, key, rows[k].token),
                                !.reverse_cache = Put(@, rows[k].token, rows[k].original_value)],
              token |-> rows[k].token]
        ELSE [found |-> FALSE, svc |-> s, token |-> <<>>]

\* tokenize_merchant lines 83-99 (tokenize_account 132-146, _tokenize_person 193-207):
\* normalize, look in the cache, then in the database; a database hit fills the caches
Lookup(rows, s, token_type, value) ==
    LET normalized == Normalize(value)
        key == <<token_type, normalized>>
        k == FindExisting(rows, token_type, normalized)
    IN  IF key \in DOMAIN s.cache
        THEN [found |-> TRUE, svc |-> s, token |-> s.cache[key]]
        ELSE IF k # 0
        THEN [found |-> TRUE,
              svc |-> [s EXCEPT !.cache = Put(@, key, rows[k].token),
                                !.reverse_cache = Put(@, rows[k].token, rows[k].original_value)],
              token |-> rows[k].token]
        ELSE [found |-> FALSE, svc |-> s, token |-> <<>>]

\* tokenize_merchant lines 103-124 (tokenize_account 149-166, _tokenize_person 210-225):
\* format the token, add the row, commit, then fill the caches.  A commit that
\* raises IntegrityError leaves the store and the caches as they were.
Create(rows, s, token_type, value, metadata, token_num) ==
    LET normalized == Normalize(value)
        token == FormatToken(token_type, token_num)
        row == TokenMapRow(token_type, value, normalized, token, metadata)
    IN  IF TokenConflict(rows, row)
        THEN [rows |-> rows, svc |-> s, ret |-> Raised("IntegrityError")]
        ELSE [rows |-> Append(rows, row),
              svc |-> [s EXCEPT !.cache = Put(@, <<token_type, normalized>>, token),
                                !.reverse_cache = Put(@, token, value)],
              ret |-> Returned(token)]

\* one whole tokenize_merchant / tokenize_account / _tokenize_person call
Tokenize(rows, s, token_type, value, metadata) ==
    LET l == Lookup(rows, s, token_type, value)
    IN  IF l.found
        THEN [rows |-> rows, svc |-> l.svc, ret |-> Returned(l.token)]
        ELSE Create(rows, s, token_type, value, metadata,
                    NextTokenNumber(rows, token_type))

-----------------------------------------------------------------------------
(* Regular expressions of the service, matched atom by atom *)

IsAlpha(a) == a \in LowerAtoms \cup UpperAtoms

\* the number of characters of an atom; 2 stands for "two or more"
AtomLen(a) == IF IsAlpha(a) /\ a \notin {"w", "f", "c", "W", "F", "C"} THEN 2 ELSE 1

RECURSIVE SkipSpaces(_, _)
SkipSpaces(t, p) == IF p <= Len(t) /\ IsSpace(t[p]) THEN SkipSpaces(t, p + 1) ELSE p

\* \s+ at p: the index after the blanks, 0 when p holds no blank
Spaces(t, p) == IF p >= 1 /\ p <= Len(t) /\ IsSpace(t[p]) THEN SkipSpaces(t, p) ELSE 0

RECURSIVE NameRun(_, _)
NameRun(t, p) ==
    IF p <= Len(t) /\ (IsAlpha(t[p]) \/ IsSpace(t[p])) THEN NameRun(t, p + 1) ELSE p

\* ([A-Z][A-Z\s]+) at p on upper-cased text (or under re.IGNORECASE): a letter,
\* then greedily one or more letters or blanks.  The index after the match, 0
\* for no match.
NameEnd(t, p) ==
    IF p >= 1 /\ p <= Len(t) /\ IsAlpha(t[p])
    THEN LET e == NameRun(t, p + 1)
         IN  IF e > p + 1 \/ AtomLen(t[p]) >= 2 THEN e ELSE 0
    ELSE 0

\* a keyword followed by \s+ at p: the index after the blanks, 0 for no match
AfterWord(t, p, w) ==
    IF p >= 1 /\ p <= Len(t) /\ UpperAtom(t[p]) = w THEN Spaces(t, p + 1) ELSE 0

\* (?:TO\s+|FROM\s+) at p
ToFrom(t, p) ==
    IF AfterWord(t, p, "TO") # 0 THEN AfterWord(t, p, "TO") ELSE AfterWord(t, p, "FROM")

\* \* at p
Star(t, p) == IF p >= 1 /\ p <= Len(t) /\ t[p] = "*" THEN p + 1 ELSE 0

\* PERSON_PATTERNS: the service label of each pattern, in list order
PERSON_PATTERNS == <<(<<"VENMO">>), (<<"ZELLE">>), (<<"PAYPAL">>), (<<"CASH", " ", "APP">>)>>

\* where the captured name may start for a match of pattern k that begins at p,
\* in the order the regex engine tries them (greedy optional groups first)
NameStarts(t, p, k) ==
    CASE k = 1 -> LET q == AfterWord(t, p, "VENMO")
                  IN  <<AfterWord(t, q, "PAYMENT"), q>>
      [] k = 2 -> LET q == AfterWord(t, p, "ZELLE")
                      q2 == AfterWord(t, q, "PAYMENT")
                  IN  <<ToFrom(t, q2), q2, ToFrom(t, q), q>>
      [] k = 3 -> <<Star(t, AfterWord(t, p, "PAYPAL"))>>
      [] OTHER -> <<Star(t, AfterWord(t, AfterWord(t, p, "CASH"), "APP"))>>

NoMatch == [from |-> 0, name |-> 0, to |-> 0]

\* the match of pattern k that begins at p: [from, to) with the name from `name`
MatchAt(t, p, k) ==
    LET c == NameStarts(t, p, k)
        good == {j \in 1..Len(c) : NameEnd(t, c[j]) # 0}
    IN  IF good = {} THEN NoMatch
        ELSE LET j == CHOOSE x \in good : \A y \in good : x <= y
             IN  [from |-> p, name |-> c[j], to |-> NameEnd(t, c[j])]

\* re.search(pattern, t): the leftmost match
Search(t, k) ==
    LET at == {p \in 1..Len(t) : MatchAt(t, p, k).to # 0}
    IN  IF at = {} THEN NoMatch
        ELSE MatchAt(t, CHOOSE p \in at : \A q \in at : p <= q, k)

\* re.sub(pattern, repl, t, flags=re.IGNORECASE) from index p on: every
\* non-overlapping match, left to right, becomes repl
RECURSIVE SubFrom(_, _, _, _)
SubFrom(t, p, k, repl) ==
    IF p > Len(t) THEN <<>>
    ELSE IF MatchAt(t, p, k).to # 0
    THEN repl \o SubFrom(t, MatchAt(t, p, k).to, k, repl)
    ELSE <<t[p]>> \o SubFrom(t, p + 1, k, repl)

\* tokenize_description, patterns k.. of the loop: search the upper-cased
\* description, tokenize the stripped name, substitute in result.  The call's
\* outcome r and the substituted text are bound as values, each computed once.
RECURSIVE DescriptionLoop(_, _, _, _, _)
DescriptionLoop(k, description, rows, s, result) ==
    IF k > Len(PERSON_PATTERNS)
    THEN [rows |-> rows, svc |-> s, ret |-> Returned(result)]
    ELSE LET m == Search(Upper(description), k)
         IN  IF m.to = 0
             THEN DescriptionLoop(k + 1, description, rows, s, result)
             ELSE CHOOSE out \in
                      {IF r.ret.status = "raised" THEN r
                       ELSE CHOOSE o \in
                                {DescriptionLoop(k + 1, description, r.rows, r.svc, sub) :
                                     sub \in {SubFrom(result, 1, k,
                                                      PERSON_PATTERNS[k] \o <<" ">>
                                                          \o r.ret.value)}} : TRUE :
                           r \in {Tokenize(rows, s, "person",
                                           Strip(SubSeq(Upper(description), m.name,
                                                        m.to - 1)),
                                           NoneMeta)}} : TRUE

\* tokenize_description
TokenizeDescription(rows, s, description) ==
    DescriptionLoop(1, description, rows, s, description)

\* MERCHANT_\d{4}|ACCOUNT_\d{3}|PERSON_\d{3} at p: the length of the match, 0 for none
TokenAt(t, p) ==
    LET fits(tt) == /\ p + 1 + PadWidth(tt) <= Len(t)
                    /\ SubSeq(t, p, p + 1) = Prefix(tt)
                    /\ \A d \in 1..PadWidth(tt) : t[p + 1 + d] \in Digit
        types == {tt \in TokenType : fits(tt)}
    IN  IF types = {} THEN 0 ELSE 2 + PadWidth(CHOOSE tt \in types : TRUE)

\* re.finditer(token_pattern, text) from index p on: the matched strings in order
RECURSIVE FindTokens(_, _)
FindTokens(t, p) ==
    IF p > Len(t) THEN <<>>
    ELSE IF TokenAt(t, p) # 0
    THEN <<SubSeq(t, p, p + TokenAt(t, p) - 1)>> \o FindTokens(t, p + TokenAt(t, p))
    ELSE FindTokens(t, p + 1)

\* str.replace(old, new) from index p on: every non-overlapping occurrence
RECURSIVE ReplaceFrom(_, _, _, _)
ReplaceFrom(t, p, old, new) ==
    IF p > Len(t) THEN <<>>
    ELSE IF p + Len(old) - 1 <= Len(t) /\ SubSeq(t, p, p + Len(old) - 1) = old
    THEN new \o ReplaceFrom(t, p + Len(old), old, new)
    ELSE <<t[p]>> \o ReplaceFrom(t, p + 1, old, new)

\* detokenize, the loop over the matches: each known token is replaced in result
RECURSIVE DetokenizeLoop(_, _, _)
DetokenizeLoop(matches, reverse_cache, result) ==
    IF matches = <<>> THEN result
    ELSE LET token == Head(matches)
         IN  DetokenizeLoop(Tail(matches), reverse_cache,
                 IF token \in DOMAIN reverse_cache
                 THEN ReplaceFrom(result, 1, token, reverse_cache[token])
                 ELSE result)

\* detokenize
Detokenize(s, text) == DetokenizeLoop(FindTokens(text, 1), s.reverse_cache, text)

-----------------------------------------------------------------------------
(* Date shifting.  A date is its proleptic Gregorian ordinal (date.toordinal) *)

\* date.min.toordinal() and date.max.toordinal(): the range of datetime.date
MINORD == 1
MAXORD == 3652059

\* random.randint(500, 1500)
SHIFT_MIN == 500
SHIFT_MAX == 1500

\* the outcomes of random.randint the model follows: both ends and an inner value
RandomShifts == {SHIFT_MIN, SHIFT_MIN + 1, SHIFT_MAX}

DateReturned(d) == [status |-> "returned", value |-> d]
DateRaised(name) == [status |-> name, value |-> 0]
DateCall(i, op, arg, ret) == [inst |-> i, op |-> op, arg |-> arg, ret |-> ret]
NoDateCall == DateCall(0, "none", 0, [status |-> "none", value |-> 0])

\* date + timedelta(days=n): OverflowError outside date.min..date.max
AddDays(d, n) ==
    IF d + n >= MINORD /\ d + n <= MAXORD THEN DateReturned(d + n)
    ELSE DateRaised("OverflowError")

\* datetime.MINYEAR and datetime.MAXYEAR
MINYEAR == 1
MAXYEAR == 9999

\* datetime._is_leap
IsLeap(year) == year % 4 = 0 /\ (year % 100 # 0 \/ year % 400 = 0)

\* datetime._days_in_month
DaysInMonth(year, month) ==
    IF month = 2 THEN (IF IsLeap(year) THEN 29 ELSE 28)
    ELSE IF month \in {4, 6, 9, 11} THEN 30 ELSE 31

\* datetime._days_before_year: the days before January 1st of `year`
DaysBeforeYear(year) ==
    LET y == year - 1
    IN  y * 365 + (y \div 4) - (y \div 100) + (y \div 400)

\* datetime._days_before_month: the days of `year` before the 1st of `month`
DaysBeforeMonth(year, month) ==
    <<0, 31, 59, 90, 120, 151, 181, 212, 243, 273, 304, 334>>[month]
        + (IF month > 2 /\ IsLeap(year) THEN 1 ELSE 0)

\* date(year, month, day): ValueError unless the fields name a day of the
\* calendar within MINYEAR..MAXYEAR
MakeDate(year, month, day) ==
    IF /\ year >= MINYEAR /\ year <= MAXYEAR
       /\ month >= 1 /\ month <= 12
       /\ day >= 1 /\ day <= DaysInMonth(year, month)
    THEN DateReturned(DaysBeforeYear(year) + DaysBeforeMonth(year, month) + day)
    ELSE DateRaised("ValueError")

\* date.year, date.month, date.day (datetime._ord2ymd)
YearOf(d) ==
    LET n0 == d - 1
        n400 == n0 \div 146097
        n1 == n0 % 146097
        n100 == n1 \div 36524
        n2 == n1 % 36524
        n4 == n2 \div 1461
        n3 == n2 % 1461
        n1y == n3 \div 365
        year == n400 * 400 + 1 + n100 * 100 + n4 * 4 + n1y
    IN  IF n1y = 4 \/ n100 = 4 THEN year - 1 ELSE year

MonthOf(d) ==
    LET n == d - DaysBeforeYear(YearOf(d)) - 1
        month == (n + 50) \div 32
    IN  IF DaysBeforeMonth(YearOf(d), month) > n THEN month - 1 ELSE month

DayOf(d) == d - DaysBeforeYear(YearOf(d)) - DaysBeforeMonth(YearOf(d), MonthOf(d))

\* a projection that adds thirty days whatever the frequency
NextExpectedPlusThirty(last_date, frequency) == AddDays(last_date, 30)

\* a projection that adds a week whatever the frequency
NextExpectedPlusSeven(last_date, frequency) == AddDays(last_date, 7)

\* calculate_next_expected; `frequency` is the value of a Frequency member
\* or any other value.  "try: date(y, m, day) except ValueError:
\* date(y, m, 28)" returns the second date when the first raises, and
\* raises what the second raises
calculate_next_expected(last_date, frequency) ==
    LET year == YearOf(last_date)
        month == MonthOf(last_date)
        day == DayOf(last_date)
        new_month == IF month + 3 > 12 THEN month + 3 - 12 ELSE month + 3
        new_year == IF month + 3 > 12 THEN year + 1 ELSE year
    IN  CASE frequency = "weekly" -> AddDays(last_date, 7)
          [] frequency = "biweekly" -> AddDays(last_date, 14)
          [] frequency = "monthly" ->
                IF month = 12 THEN MakeDate(year + 1, 1, day)
                ELSE IF MakeDate(year, month + 1, day).status = "ValueError"
                     THEN MakeDate(year, month + 1, 28)
                     ELSE MakeDate(year, month + 1, day)
          [] frequency = "quarterly" ->
                IF MakeDate(new_year, new_month, day).status = "ValueError"
                THEN MakeDate(new_year, new_month, 28)
                ELSE MakeDate(new_year, new_month, day)
          [] frequency = "yearly" ->
                IF MakeDate(year + 1, month, day).status = "ValueError"
                THEN MakeDate(year + 1, month, 28)
                ELSE MakeDate(year + 1, month, day)
          [] OTHER -> AddDays(last_date, 30)

\* a calculate_next_expected call and what it returned or raised
NextCall(last_date, frequency) ==
    [last_date |-> last_date, frequency |-> frequency,
     ret |-> calculate_next_expected(last_date, frequency)]

NoNextCall == [last_date |-> 0, frequency |-> "none", ret |-> [status |-> "none", value |-> 0]]

\* shift_date: original_date + timedelta(days=shift)
ShiftDate(shift, original_date) == AddDays(original_date, shift)

\* an unshift that adds the offset once more
UnshiftDateAdds(shift, shifted_date) == AddDays(shifted_date, shift)

\* unshift_date: shifted_date - timedelta(days=shift)
UnshiftDate(shift, shifted_date) == AddDays(shifted_date, 0 - shift)

\* the body of shift_date / unshift_date once _get_date_shift has returned
ApplyShift(op, shift, d) ==
    IF op = "shift_date" THEN ShiftDate(shift, d) ELSE UnshiftDate(shift, d)

-----------------------------------------------------------------------------
(* tokenize_transaction_for_ai: mappings and their values *)

\* the values a transaction mapping holds: a str, None, a number, a date
\* (ordinal n), and the str that is the ISO text of the date with ordinal n
Str(s) == [t |-> "str", s |-> s, n |-> 0]
NoneVal == [t |-> "None", s |-> <<>>, n |-> 0]
Num(n) == [t |-> "num", s |-> <<>>, n |-> n]
DateVal(n) == [t |-> "date", s |-> <<>>, n |-> n]
IsoStr(n) == [t |-> "str", s |-> <<"iso">>, n |-> n]

\* truth value of a mapping value: None and "" are falsy
Truthy(v) == v.t # "None" /\ ~(v.t = "str" /\ v.s = <<>> /\ v.n = 0) /\ ~(v.t = "num" /\ v.n = 0)

\* dict.get(k, default) and dict.pop(k, None)
Get(d, k, default) == IF k \in DOMAIN d THEN d[k] ELSE default
Pop(d, k) == [x \in (DOMAIN d) \ {k} |-> d[x]]

\* a or b
Or(a, b) == IF Truthy(a) THEN a ELSE b

\* the state a call threads through its steps: store, date shift table,
\* service, the working mapping `result`, and "ok" or the exception raised
Step(rows, shifts, s, status, result) ==
    [rows |-> rows, shifts |-> shifts, svc |-> s, status |-> status, result |-> result]

\* run F on the outcome of the steps so far unless one of them raised
Then(st, F(_)) == CHOOSE o \in {IF v.status # "ok" THEN v ELSE F(v) : v \in {st}} : TRUE

\* _get_date_shift as one step: the cached shift, else the stored one, else
\* `draw` inserted and committed
GetDateShift(shifts, s, draw) ==
    IF s.date_shift # NoneShift
    THEN [shifts |-> shifts, svc |-> s, shift |-> s.date_shift]
    ELSE IF shifts # <<>>
    THEN [shifts |-> shifts, svc |-> [s EXCEPT !.date_shift = shifts[1].shift_days],
          shift |-> shifts[1].shift_days]
    ELSE [shifts |-> Append(shifts, [id |-> 1, shift_days |-> draw]),
          svc |-> [s EXCEPT !.date_shift = draw], shift |-> draw]

\* f"{token} [{category}]"
WithCategory(token, category) == token \o <<" ", "[">> \o category \o <<"]">>

\* lines 269-281: the merchant block
TxnMerchant(st, include_category) ==
    LET result == st.result
    IN  IF ~("merchant" \in DOMAIN result \/ "clean_merchant" \in DOMAIN result) THEN st
        ELSE LET merchant == Or(Get(result, "clean_merchant", NoneVal),
                                Get(result, "merchant", Str(<<>>)))
                 category == IF include_category
                             THEN Get(result, "category_name", NoneVal) ELSE NoneVal
             IN  IF merchant.t # "str"
                 THEN [st EXCEPT !.status = "AttributeError"]
                 ELSE CHOOSE o \in
                          {IF r.ret.status = "raised"
                           THEN Step(r.rows, st.shifts, r.svc, r.ret.value[1], result)
                           ELSE Step(r.rows, st.shifts, r.svc, "ok",
                                     Pop(Pop(Put(result, "merchant",
                                                 IF include_category /\ Truthy(category)
                                                 THEN Str(WithCategory(r.ret.value,
                                                                       category.s))
                                                 ELSE Str(r.ret.value)),
                                             "clean_merchant"),
                                         "raw_description") ) :
                               r \in {Tokenize(st.rows, st.svc, "merchant", merchant.s,
                                               MerchantMetadata(
                                                   IF Truthy(category) THEN category.s
                                                   ELSE NoneStr, NoneStr))}} : TRUE

\* lines 283-285: the description block
TxnDescription(st) ==
    LET result == st.result
    IN  IF "description" \notin DOMAIN result THEN st
        ELSE IF result["description"].t # "str"
        THEN [st EXCEPT !.status = "AttributeError"]
        ELSE CHOOSE o \in
                 {IF r.ret.status = "raised"
                  THEN Step(r.rows, st.shifts, r.svc, r.ret.value[1], result)
                  ELSE Step(r.rows, st.shifts, r.svc, "ok",
                            Put(result, "description", Str(r.ret.value))) :
                      r \in {TokenizeDescription(st.rows, st.svc,
                                                 result["description"].s)}} : TRUE

\* lines 287-294: the date block.  datetime.fromisoformat raises ValueError on
\* a str that is no ISO date; shift_date first gets the shift, then adds it
TxnDate(st, draw) ==
    LET result == st.result
    IN  IF "date" \notin DOMAIN result THEN st
        ELSE LET d == result["date"]
             IN  IF d.t = "str" /\ d.s # <<"iso">>
                 THEN [st EXCEPT !.status = "ValueError"]
                 ELSE CHOOSE o \in
                          {IF d.t \notin {"str", "date"}
                           THEN Step(st.rows, g.shifts, g.svc, "TypeError", result)
                           ELSE IF ShiftDate(g.shift, d.n).status # "returned"
                           THEN Step(st.rows, g.shifts, g.svc,
                                     ShiftDate(g.shift, d.n).status, result)
                           ELSE Step(st.rows, g.shifts, g.svc, "ok",
                                     Put(result, "date",
                                         IsoStr(ShiftDate(g.shift, d.n).value))) :
                               g \in {GetDateShift(st.shifts, st.svc, draw)}} : TRUE

\* lines 296-301: the account block
TxnAccount(st) ==
    LET result == st.result
    IN  IF "account_name" \notin DOMAIN result THEN st
        ELSE LET account_type == Get(result, "account_type", NoneVal)
             IN  IF result["account_name"].t # "str"
                 THEN [st EXCEPT !.status = "AttributeError"]
                 ELSE CHOOSE o \in
                          {IF r.ret.status = "raised"
                           THEN Step(r.rows, st.shifts, r.svc, r.ret.value[1], result)
                           ELSE Step(r.rows, st.shifts, r.svc, "ok",
                                     Pop(Pop(Put(result, "account", Str(r.ret.value)),
                                             "account_name"),
                                         "account_type")) :
                               r \in {Tokenize(st.rows, st.svc, "account",
                                               result["account_name"].s,
                                               AccountMetadata(
                                                   IF Truthy(account_type)
                                                   THEN account_type.s ELSE NoneStr))}} : TRUE

\* tokenize_transaction_for_ai: result = dict(transaction), then the four blocks
TokenizeTransactionForAi(rows, shifts, s, transaction, include_category, draw) ==
    LET Merchant(x) == TxnMerchant(x, include_category)
        Description(x) == TxnDescription(x)
        Date(x) == TxnDate(x, draw)
        Account(x) == TxnAccount(x)
    IN  Then(Then(Then(Then(Step(rows, shifts, s, "ok", transaction), Merchant),
                       Description), Date), Account)

\* the caller's mapping after the call when `result` is the caller's mapping
\* itself and not a copy
TransactionAliased(transaction, result) == result

\* the caller's mapping after the call: line 266 copies it, the blocks write
\* to the copy only
TransactionAfterCall(transaction, result) == transaction

\* is there a merchant token for this name: the cache, then the database
IsKnownMerchantRaw(rows, s, merchant) ==
    \/ <<"merchant", merchant>> \in DOMAIN s.cache
    \/ FindExisting(rows, "merchant", merchant) # 0

\* get_unknown_merchants lines 313-321: the test of one name
IsKnownMerchant(rows, s, merchant) ==
    LET normalized == Normalize(merchant)
    IN  \/ <<"merchant", normalized>> \in DOMAIN s.cache
        \/ FindExisting(rows, "merchant", normalized) # 0

\* get_unknown_merchants
GetUnknownMerchants(rows, s, merchants) ==
    LET Unknown(merchant) == ~IsKnownMerchant(rows, s, merchant)
    IN  SelectSeq(merchants, Unknown)

TxnCall(i, op, input, after, flag, status, result, merchants, names) ==
    [inst |-> i, op |-> op, input |-> input, after |-> after, include_category |-> flag,
     status |-> status, result |-> result, merchants |-> merchants, names |-> names]

NoTxnCall == TxnCall(0, "none", EmptyDict, EmptyDict, FALSE, "none", EmptyDict, <<>>, <<>>)

-----------------------------------------------------------------------------
(* Inputs *)

\* merchant names: two spellings of one name, another name, and a name that
\* reads like an account token
MerchantNames == {<<"w">>, <<" ", "W">>, <<"f">>, <<"ACCOUNT", "_", "0", "0", "1">>}

AccountNames == {<<"c">>, <<"C", " ">>}

\* the calls of tokenize_merchant and tokenize_account: op, name, metadata.
\* The second spelling of a name comes with a category the first call lacked.
TokenizeCalls ==
    {[op |-> "tokenize_merchant", token_type |-> "merchant", arg |-> n,
      metadata |-> MerchantMetadata(IF Head(n) = " " THEN <<"F">> ELSE NoneStr, NoneStr)]
        : n \in MerchantNames}
    \cup
    {[op |-> "tokenize_account", token_type |-> "account", arg |-> n,
      metadata |-> AccountMetadata(IF Head(n) = "C" THEN <<"F">> ELSE NoneStr)]
        : n \in AccountNames}

Descriptions ==
    {<<"VENMO", " ", "PAYMENT", " ", "JOHN", " ", "SMITH">>,
     <<"ZELLE", " ", "TO", " ", "JOHN", " ", "SMITH">>,
     <<"venmo", " ", "john">>,
     <<"PAYPAL", " ", "*", "john", " ", "1">>,
     <<"CASH", " ", "APP", " ", "*", "JOHN">>,
     <<"w", " ", "1">>}

\* pieces of the texts handed to detokenize
Segments ==
    {<<"MERCHANT", "_", "0", "0", "0", "1">>, <<"MERCHANT", "_", "0", "0", "0", "2">>,
     <<"ACCOUNT", "_", "0", "0", "1">>, <<" ">>, <<"w">>, <<"1">>}

MaxSegments == 2

\* dates handed to shift_date and unshift_date: the ends of the date range and
\* a day of 2021
DateInputs == {MINORD, MINORD + SHIFT_MAX, 738000, MAXORD - SHIFT_MIN, MAXORD}

\* mappings handed to tokenize_transaction_for_ai
TxnInputs ==
    {("merchant" :> Str(<<"w">>)) @@ ("amount" :> Num(5)) @@ ("date" :> IsoStr(738000))
         @@ ("category_name" :> Str(<<"F">>)) @@ ("account_name" :> Str(<<"c">>))
         @@ ("account_type" :> Str(<<"F">>)),
     ("clean_merchant" :> Str(<<"f">>)) @@ ("merchant" :> Str(<<"w">>))
         @@ ("raw_description" :> Str(<<"VENMO", " ", "JOHN">>))
         @@ ("description" :> Str(<<"VENMO", " ", "JOHN">>)) @@ ("date" :> DateVal(738000)),
     ("clean_merchant" :> Str(<<>>)) @@ ("merchant" :> Str(<<" ", "W">>))
         @@ ("category_name" :> NoneVal),
     ("raw_description" :> Str(<<"w">>)) @@ ("amount" :> Num(5)),
     ("account_type" :> Str(<<"F">>)) @@ ("amount" :> Num(5)),
     ("account" :> Str(<<"f">>)) @@ ("account_name" :> Str(<<"c">>)),
     ("merchant" :> NoneVal) @@ ("amount" :> Num(5)),
     ("merchant" :> Str(<<"w">>)) @@ ("date" :> DateVal(MAXORD)),
     ("description" :> Str(<<"w">>)) @@ ("date" :> Str(<<"w">>)),
     ("amount" :> Num(5)) @@ ("date" :> NoneVal)}

\* the longest list handed to get_unknown_merchants
MaxNames == 2

\* the lists asked about, of two names: one in a spelling no call has used,
\* one plain
MerchantLists == UNION {[1..n -> {<<" ", "W">>, <<"f">>}] : n \in 0..MaxNames}

\* the calls that fill the store before the question is asked; the account
\* shares its name with a merchant that may or may not be known
UnknownCalls ==
    {[op |-> "tokenize_merchant", token_type |-> "merchant", arg |-> <<"w">>,
      metadata |-> MerchantMetadata(NoneStr, NoneStr)],
     [op |-> "tokenize_merchant", token_type |-> "merchant", arg |-> <<"f">>,
      metadata |-> MerchantMetadata(NoneStr, NoneStr)],
     [op |-> "tokenize_account", token_type |-> "account", arg |-> <<"f">>,
      metadata |-> AccountMetadata(NoneStr)]}

RECURSIVE TextsOf(_)
TextsOf(n) ==
    IF n = 0 THEN {<<>>}
    ELSE TextsOf(n - 1) \cup {a \o b : a \in TextsOf(n - 1), b \in Segments}

Texts == TextsOf(MaxSegments)

\* the calls the two concurrent instances make
ConcurrentCalls ==
    {[op |-> "tokenize_merchant", token_type |-> "merchant", arg |-> <<"w">>,
      metadata |-> MerchantMetadata(NoneStr, NoneStr)],
     [op |-> "tokenize_merchant", token_type |-> "merchant", arg |-> <<" ", "W">>,
      metadata |-> MerchantMetadata(<<"F">>, NoneStr)],
     [op |-> "tokenize_merchant", token_type |-> "merchant", arg |-> <<"f">>,
      metadata |-> MerchantMetadata(NoneStr, NoneStr)],
     [op |-> "tokenize_account", token_type |-> "account", arg |-> <<"c">>,
      metadata |-> AccountMetadata(NoneStr)]}

Idle == [stage |-> "idle", op |-> "none", token_type |-> "none", arg |-> <<>>,
         metadata |-> {}, token_num |-> 0, date |-> 0]

\* the history of returned tokens, extended by a call that returned
Record(hist, c) ==
    IF c.ret.status = "returned" /\ c.op = "tokenize_merchant"
    THEN hist \cup {<<c.inst, c.op, c.arg, c.ret.value>>}
    ELSE hist

-----------------------------------------------------------------------------
(* Specification Spec: two service instances, each with its own session, on   *)
(* one database.  Every database round trip of a tokenize call is one step.   *)

-----------------------------------------------------------------------------
(* Import pipeline: settings, records, prompts *)

\* Settings defaults of app/config.py
ai_provider == "openrouter"
ai_auto_categorize == TRUE
ai_clean_merchants == TRUE
ai_detect_format == TRUE

\* the PrivacySettings row with its column defaults
DefaultPrivacy ==
    [obfuscation_enabled |-> TRUE, ollama_obfuscation |-> FALSE,
     openrouter_obfuscation |-> TRUE, anthropic_obfuscation |-> TRUE,
     openai_obfuscation |-> TRUE]

\* AIClient.should_obfuscate; _db is "None" or "session"
should_obfuscate(_db, privacy_settings, provider) ==
    IF _db = "None" THEN FALSE
    ELSE IF ~privacy_settings.obfuscation_enabled THEN FALSE
    ELSE CASE provider = "ollama" -> privacy_settings.ollama_obfuscation
           [] provider = "openrouter" -> privacy_settings.openrouter_obfuscation
           [] provider = "anthropic" -> privacy_settings.anthropic_obfuscation
           [] provider = "openai" -> privacy_settings.openai_obfuscation
           [] OTHER -> TRUE

\* str.lower(), atom by atom
LowerAtom(a) ==
    CASE a = "W" -> "w"
      [] a = "F" -> "f"
      [] a = "C" -> "c"
      [] a = "VENMO" -> "venmo"
      [] a = "JOHN" -> "john"
      [] OTHER -> a

Lower(s) == [k \in 1..Len(s) |-> LowerAtom(s[k])]

\* a Decimal as the parsers build it from text: its value in cents and the
\* number of decimal places it was written with.  Python's == compares the
\* value alone; str() writes the places, so str(Decimal("12.5")) and
\* str(Decimal("12.50")) differ
Decimal(cents, places) == [cents |-> cents, places |-> places]

\* generate_transaction_hash: the SHA-256 digest of "|".join(components),
\* kept as the string it digests.  txn_date.isoformat() and str(amount) are
\* one atom each (neither holds a "|"); the description and the account id
\* are written atom by atom, and any of their atoms may be a "|"
generate_transaction_hash(txn_date, amount, raw_description, account_id) ==
    <<txn_date, "|", amount, "|">> \o Lower(Strip(raw_description)) \o <<"|">> \o account_id

\* a generate_transaction_hash call and the digest it returned
HashCall(txn_date, amount, raw_description, account_id) ==
    [txn_date |-> txn_date, amount |-> amount, raw_description |-> raw_description,
     account_id |-> account_id,
     digest |-> generate_transaction_hash(txn_date, amount, raw_description, account_id)]

NoHashCall ==
    [txn_date |-> 0, amount |-> Decimal(0, 0), raw_description |-> <<>>,
     account_id |-> <<>>, digest |-> <<>>]

\* is_duplicate: a row with this hash is visible to the session
is_duplicate(visible, txn_hash) == \E k \in 1..Len(visible) : visible[k].hash = txn_hash

\* a table without the unique index
NoHashIndex(rows, added) == FALSE

\* the unique index on transactions.hash, checked when rows are flushed
HashConflict(rows, added) ==
    LET all == rows \o added
    IN  \E j, k \in 1..Len(all) : j < k /\ all[j].hash = all[k].hash

ImportIds == {1, 2}

\* the rows of the accounts table, and the account ids a request may name
accounts == {<<"acct">>}
AccountIds == {<<"acct">>, <<"gone">>}

\* parsed records: date (ordinal), amount, raw_description
Records ==
    {[date |-> 738000, amount |-> Decimal(0 - 5000, 2),
      raw_description |-> <<"VENMO", " ", "JOHN">>],
     [date |-> 738001, amount |-> Decimal(1200, 2), raw_description |-> <<"w">>]}

\* the largest number of records in an uploaded file
MaxBatch == 2

Batches == UNION {[1..n -> Records] : n \in 1..MaxBatch}

\* what the model follows of the AI's answers: no answer (None), or a name /
\* a categorization with confidence above 0.5
CleanAnswers == {NoneStr, <<"F">>}
CategoryResults == {"none", "high"}

Abs(n) == IF n < 0 THEN 0 - n ELSE n

\* a prompt handed to AIClient.complete, as the record values its template
\* embeds; `configured` notes what the privacy settings row said for the
\* provider when the prompt was sent
Prompt(kind, descriptions, dates, amounts, account_types, settings) ==
    [kind |-> kind, descriptions |-> descriptions, dates |-> dates, amounts |-> amounts,
     account_types |-> account_types,
     configured |-> should_obfuscate("session", settings, ai_provider)]

\* detect_csv_format: FORMAT_DETECTION_USER with the headers and preview rows
FormatDetectionPrompt(batch, settings) ==
    Prompt("detect_csv_format",
           {batch[k].raw_description : k \in 1..Len(batch)},
           {batch[k].date : k \in 1..Len(batch)},
           {batch[k].amount.cents : k \in 1..Len(batch)}, {}, settings)

\* clean_merchant_name: MERCHANT_CLEANING_USER.format(raw_description=...)
MerchantCleaningPrompt(raw_description, settings) ==
    Prompt("clean_merchant_name", {raw_description}, {}, {}, {}, settings)

\* categorize_transaction: CATEGORIZATION_USER.format(clean_merchant or
\* raw_description, raw_description, abs(amount), date, account_type)
CategorizationPrompt(clean_merchant, raw_description, amount, date, account_type, settings) ==
    Prompt("categorize_transaction",
           {IF clean_merchant # NoneStr THEN clean_merchant ELSE raw_description,
            raw_description},
           {date}, {Abs(amount)}, {account_type}, settings)

NoLog == [status |-> "none", transactions_imported |-> 0, transactions_skipped |-> 0]

\* an import id that was never uploaded
NoReq ==
    [stage |-> "none", mode |-> "none", account_id |-> <<>>, account_type |-> "none",
     batch |-> <<>>, k |-> 0, imported |-> 0, skipped |-> 0,
     added |-> <<>>, clean_merchant |-> NoneStr, category_id |-> "none",
     ai_categorized |-> FALSE, log |-> NoLog, raised |-> "none"]

\* no token minted by the counting specification
NoMint == [token_type |-> "none", count |-> 0, token |-> NoneStr]

InitCommon ==
    /\ token_maps = <<>>
    /\ date_shifts = <<>>
    /\ svc = [i \in Inst |-> NewService(<<>>)]
    /\ pc = [i \in Inst |-> Idle]
    /\ last = NoCall
    /\ returned = {}
    /\ dlast = NoDateCall
    /\ dprev = NoDateCall
    /\ fmt = NoMint
    /\ imp = [autoflush |-> TRUE, req |-> [id \in ImportIds |-> NoReq]]
    /\ transactions = <<>>
    /\ prompts = {}
    /\ privacy = DefaultPrivacy
    /\ tlast = NoTxnCall
    /\ hlast = <<NoHashCall, NoHashCall>>
    /\ nlast = NoNextCall
    /\ recurring_groups = <<>>

Init == InitCommon

\* TokenizationService(db) for a new request
Construct(i) ==
    /\ pc[i].stage = "idle"
    /\ svc' = [svc EXCEPT ![i] = NewService(token_maps)]
    /\ UNCHANGED <<token_maps, date_shifts, pc, last, returned, dlast, dprev, fmt, imp,
                   transactions, prompts, privacy, tlast, hlast, nlast, recurring_groups>>

\* entry of a tokenize call: cache check and the find query
CallTokenize(i, c) ==
    /\ pc[i].stage = "idle"
    /\ Len(token_maps) < MaxRows
    /\ LET l == Lookup(token_maps, svc[i], c.token_type, c.arg)
       IN  IF l.found
           THEN /\ svc' = [svc EXCEPT ![i] = l.svc]
                /\ last' = Call(i, c.op, c.arg, c.metadata, Returned(l.token))
                /\ pc' = pc
           ELSE /\ pc' = [pc EXCEPT ![i] = [stage |-> "count", op |-> c.op,
                                            token_type |-> c.token_type, arg |-> c.arg,
                                            metadata |-> c.metadata, token_num |-> 0,
                                            date |-> 0]]
                /\ UNCHANGED <<svc, last>>
    /\ UNCHANGED <<token_maps, date_shifts, returned, dlast, dprev, fmt, imp,
                   transactions, prompts, privacy, tlast, hlast, nlast, recurring_groups>>

\* _get_next_token_number: the count query
CountStep(i) ==
    /\ pc[i].stage = "count"
    /\ pc' = [pc EXCEPT ![i].stage = "insert",
                        ![i].token_num = NextTokenNumber(token_maps, pc[i].token_type)]
    /\ UNCHANGED <<token_maps, date_shifts, svc, last, returned, dlast, dprev, fmt, imp,
                   transactions, prompts, privacy, tlast, hlast, nlast, recurring_groups>>

\* db.add(token_map); db.commit(); cache update; return
InsertStep(i) ==
    /\ pc[i].stage = "insert"
    /\ LET r == Create(token_maps, svc[i], pc[i].token_type, pc[i].arg,
                       pc[i].metadata, pc[i].token_num)
       IN  /\ token_maps' = r.rows
           /\ svc' = [svc EXCEPT ![i] = r.svc]
           /\ last' = Call(i, pc[i].op, pc[i].arg, pc[i].metadata, r.ret)
    /\ pc' = [pc EXCEPT ![i] = Idle]
    /\ UNCHANGED <<date_shifts, returned, dlast, dprev, fmt, imp, transactions,
                   prompts, privacy, tlast, hlast, nlast, recurring_groups>>

Next ==
    \/ \E i \in Inst : Construct(i)
    \/ \E i \in Inst, c \in ConcurrentCalls : CallTokenize(i, c)
    \/ \E i \in Inst : CountStep(i)
    \/ \E i \in Inst : InsertStep(i)

Spec == Init /\ [][Next]_vars

\* C2: the token store holds at most one row per (type, normalized_value), also
\* when two instances interleave the find, count and insert steps of their calls
UniqueTypeNormalized ==
    \A j, k \in 1..Len(token_maps) :
        (/\ token_maps[j].token_type = token_maps[k].token_type
         /\ token_maps[j].normalized_value = token_maps[k].normalized_value) => j = k

\* C3: no two persisted token rows carry the same token string; a caller whose
\* sequence number was taken in the meantime has its insert rejected
UniqueTokens ==
    \A j, k \in 1..Len(token_maps) :
        token_maps[j].token = token_maps[k].token => j = k

\* C3 witness: an insert was rejected by the unique index on token while the
\* other caller's row with that sequence number is in the store
InsertRejected ==
    /\ last.ret = Raised("IntegrityError")
    /\ Len(token_maps) >= 1

-----------------------------------------------------------------------------
(* Specification SpecSeq: one service instance used through one session.    *)
(* Calls run to completion one after the other.                             *)

\* the instance of the single-session specifications
Solo == {1}

\* tokenize_merchant / tokenize_account, the whole call
DoTokenize(i, c) ==
    /\ pc[i].stage = "idle"
    /\ Len(token_maps) < MaxRows
    /\ LET r == Tokenize(token_maps, svc[i], c.token_type, c.arg, c.metadata)
           done == Call(i, c.op, c.arg, c.metadata, r.ret)
       IN  /\ token_maps' = r.rows
           /\ svc' = [svc EXCEPT ![i] = r.svc]
           /\ last' = done
           /\ returned' = Record(returned, done)
    /\ UNCHANGED <<date_shifts, pc, dlast, dprev, fmt, imp, transactions, prompts,
                   privacy, tlast, hlast, nlast, recurring_groups>>

\* tokenize_description, the whole call
DoTokenizeDescription(i, description) ==
    /\ pc[i].stage = "idle"
    /\ Len(token_maps) < MaxRows
    /\ LET r == TokenizeDescription(token_maps, svc[i], description)
       IN  /\ token_maps' = r.rows
           /\ svc' = [svc EXCEPT ![i] = r.svc]
           /\ last' = Call(i, "tokenize_description", description, {}, r.ret)
    /\ UNCHANGED <<date_shifts, pc, returned, dlast, dprev, fmt, imp, transactions,
                   prompts, privacy, tlast, hlast, nlast, recurring_groups>>

\* detokenize
DoDetokenize(i, text) ==
    /\ pc[i].stage = "idle"
    /\ last' = Call(i, "detokenize", text, {}, Returned(Detokenize(svc[i], text)))
    /\ UNCHANGED <<token_maps, date_shifts, svc, pc, returned, dlast, dprev, fmt, imp,
                   transactions, prompts, privacy, tlast, hlast, nlast, recurring_groups>>

NextSeq ==
    \/ \E i \in Solo : Construct(i)
    \/ \E i \in Solo, c \in TokenizeCalls : DoTokenize(i, c)
    \/ \E i \in Solo, d \in Descriptions : DoTokenizeDescription(i, d)

SpecSeq == Init /\ [][NextSeq]_vars

\* Specification SpecDetok: one instance, tokenize calls and detokenize
NextDetok ==
    \/ \E i \in Solo : Construct(i)
    \/ \E i \in Solo, c \in TokenizeCalls : DoTokenize(i, c)
    \/ \E i \in Solo, text \in Texts : DoDetokenize(i, text)

SpecDetok == Init /\ [][NextDetok]_vars

\* the claims' notion of a name "after trimming surrounding whitespace and
\* upper-casing"
Folded(name) == [k \in 1..Len(Strip(name)) |-> UpperAtom(Strip(name)[k])]

\* C1: two tokenize_merchant calls on one instance return the same token if and
\* only if their names are equal after trimming and upper-casing
SameTokenIffSameName ==
    \A a, b \in returned :
        (a[1] = b[1] /\ a[2] = "tokenize_merchant" /\ b[2] = "tokenize_merchant")
            => ((a[4] = b[4]) <=> (Folded(a[3]) = Folded(b[3])))

\* C1 witness: one instance returned one token for two spellings of a name and
\* another token for another name
TwoSpellingsOneToken ==
    \E a, b, c \in returned :
        /\ a[1] = b[1] /\ b[1] = c[1]
        /\ a[2] = "tokenize_merchant" /\ b[2] = "tokenize_merchant"
        /\ c[2] = "tokenize_merchant"
        /\ a[3] # b[3] /\ a[4] = b[4] /\ c[4] # a[4]

\* the rows of one type, in creation order
TypeRows(token_type) == SelectSeq(token_maps, LAMBDA r : r.token_type = token_type)

\* C4: through a single session the tokens of each type carry the sequence
\* numbers 1..n in creation order, each type counting on its own
SequenceNumbersDense ==
    \A tt \in TokenType :
        \A n \in 1..Len(TypeRows(tt)) :
            TypeRows(tt)[n].token = Prefix(tt) \o ZeroPad(n, PadWidth(tt))

\* C4 witness: a second token of one type was minted after a token of another type
InterleavedTypes ==
    \E j, k, l \in 1..Len(token_maps) :
        /\ j < k /\ k < l
        /\ token_maps[j].token_type = token_maps[l].token_type
        /\ token_maps[j].token_type # token_maps[k].token_type

HasName(rows, token_type, folded) ==
    \E k \in 1..Len(rows) :
        rows[k].token_type = token_type /\ Folded(rows[k].original_value) = folded

\* C6: a call for a name whose normalized form already has a token adds no row
\* and leaves the existing rows as they are: every step keeps the stored rows
\* and appends rows only for names that had no token
ExistingNameAddsNoRow ==
    [][/\ Len(token_maps') >= Len(token_maps)
       /\ \A k \in 1..Len(token_maps) : token_maps'[k] = token_maps[k]
       /\ \A k \in (Len(token_maps) + 1)..Len(token_maps') :
              ~HasName(token_maps, token_maps'[k].token_type,
                       Folded(token_maps'[k].original_value))]_vars

\* C6 witness: the last call named a stored merchant or account in another
\* spelling and with other metadata, and got the stored row's token
RespelledCallAnswered ==
    /\ last.op \in {"tokenize_merchant", "tokenize_account"}
    /\ \E k \in 1..Len(token_maps) :
           /\ Folded(token_maps[k].original_value) = Folded(last.arg)
           /\ token_maps[k].token_type =
                  (IF last.op = "tokenize_merchant" THEN "merchant" ELSE "account")
           /\ token_maps[k].original_value # last.arg
           /\ token_maps[k].metadata_ # last.metadata
           /\ last.ret = Returned(token_maps[k].token)

\* what detokenize is to give back: one pass over the text, every issued token
\* replaced by its stored original value, every other character kept
RECURSIVE Restored(_, _)
Restored(t, p) ==
    IF p > Len(t) THEN <<>>
    ELSE LET here == {k \in 1..Len(token_maps) :
                         /\ p + Len(token_maps[k].token) - 1 <= Len(t)
                         /\ SubSeq(t, p, p + Len(token_maps[k].token) - 1)
                                = token_maps[k].token}
         IN  IF here = {} THEN <<t[p]>> \o Restored(t, p + 1)
             ELSE LET k == CHOOSE x \in here : TRUE
                  IN  token_maps[k].original_value
                          \o Restored(t, p + Len(token_maps[k].token))

\* the instance has every stored token in its reverse cache
KnowsAllTokens(i) ==
    \A k \in 1..Len(token_maps) : token_maps[k].token \in DOMAIN svc[i].reverse_cache

\* C7: detokenize replaces every occurrence of an issued token by its stored
\* original value and leaves every other character unchanged
DetokenizeRestores ==
    (last.op = "detokenize" /\ KnowsAllTokens(last.inst))
        => last.ret = Returned(Restored(last.arg, 1))

-----------------------------------------------------------------------------
(* Specifications SpecDate (two instances, each with its own session) and    *)
(* SpecShift (one instance): shift_date and unshift_date.  The query of      *)
(* _get_date_shift is one step, the draw with its insert and commit another. *)

\* the dates a call of instance i may get: an input, or what the instance's
\* previous call on an input returned
DateArgs(i) ==
    DateInputs \cup
        (IF dlast.inst = i /\ dlast.ret.status = "returned" /\ dlast.arg \in DateInputs
         THEN {dlast.ret.value} ELSE {})

\* shift_date / unshift_date up to the query of _get_date_shift (lines 46-51)
CallDate(i, op, d) ==
    /\ pc[i].stage = "idle"
    /\ d \in DateArgs(i)
    /\ IF svc[i].date_shift # NoneShift
       THEN /\ dlast' = DateCall(i, op, d, ApplyShift(op, svc[i].date_shift, d))
            /\ dprev' = dlast
            /\ UNCHANGED <<svc, pc>>
       ELSE IF date_shifts # <<>>
       THEN /\ svc' = [svc EXCEPT ![i].date_shift = date_shifts[1].shift_days]
            /\ dlast' = DateCall(i, op, d, ApplyShift(op, date_shifts[1].shift_days, d))
            /\ dprev' = dlast
            /\ pc' = pc
       ELSE /\ pc' = [pc EXCEPT ![i] = [Idle EXCEPT !.stage = "generate", !.op = op,
                                                     !.date = d]]
            /\ UNCHANGED <<svc, dlast, dprev>>
    /\ UNCHANGED <<token_maps, date_shifts, last, returned, fmt, imp, transactions,
                   prompts, privacy, tlast, hlast, nlast, recurring_groups>>

\* _get_date_shift lines 54-59 and the rest of the call: draw the shift, keep
\* it in self._date_shift, insert DateShift(id=1), commit.  The primary key
\* rejects a second row with IntegrityError.
GenerateShift(i, shift) ==
    /\ pc[i].stage = "generate"
    /\ svc' = [svc EXCEPT ![i].date_shift = shift]
    /\ IF \E k \in 1..Len(date_shifts) : date_shifts[k].id = 1
       THEN /\ dlast' = DateCall(i, pc[i].op, pc[i].date, DateRaised("IntegrityError"))
            /\ date_shifts' = date_shifts
       ELSE /\ date_shifts' = Append(date_shifts, [id |-> 1, shift_days |-> shift])
            /\ dlast' = DateCall(i, pc[i].op, pc[i].date,
                                 ApplyShift(pc[i].op, shift, pc[i].date))
    /\ dprev' = dlast
    /\ pc' = [pc EXCEPT ![i] = Idle]
    /\ UNCHANGED <<token_maps, last, returned, fmt, imp, transactions, prompts, privacy, tlast, hlast, nlast, recurring_groups>>

DateOps == {"shift_date", "unshift_date"}

NextDate ==
    \/ \E i \in Inst : Construct(i)
    \/ \E i \in Inst, op \in DateOps : \E d \in DateArgs(i) : CallDate(i, op, d)
    \/ \E i \in Inst, shift \in RandomShifts : GenerateShift(i, shift)

SpecDate == Init /\ [][NextDate]_vars

NextShift ==
    \/ \E i \in Solo : Construct(i)
    \/ \E i \in Solo, op \in DateOps : \E d \in DateArgs(i) : CallDate(i, op, d)
    \/ \E i \in Solo, shift \in RandomShifts : GenerateShift(i, shift)

SpecShift == Init /\ [][NextShift]_vars

\* the state part of C8
DateShiftConsistent ==
    /\ Len(date_shifts) <= 1
    /\ \A k \in 1..Len(date_shifts) :
           date_shifts[k].shift_days >= 500 /\ date_shifts[k].shift_days <= 1500
    /\ \A i \in Inst :
           svc[i].date_shift # NoneShift
               => (date_shifts # <<>> /\ svc[i].date_shift = date_shifts[1].shift_days)

\* C8: at most one DateShift row exists, its shift_days lies in [500, 1500] and
\* never changes once written, and the shift cached by every instance equals
\* the persisted shift_days
DateShiftSingleton ==
    [][/\ DateShiftConsistent'
       /\ date_shifts # <<>> => date_shifts' = date_shifts]_vars

\* C9: for every date d, unshift_date(shift_date(d)) = d and
\* shift_date(unshift_date(d)) = d on one instance: the first call returns a
\* date and the second call, given that date, returns d
RoundTripIdentity ==
    /\ dlast.op \in DateOps => dlast.ret.status = "returned"
    /\ (/\ dlast.op \in DateOps /\ dprev.op \in DateOps /\ dlast.op # dprev.op
        /\ dlast.inst = dprev.inst /\ dprev.ret = DateReturned(dlast.arg))
           => dlast.ret = DateReturned(dprev.arg)

\* C9 as amended: the round trip is the identity for every date whose shifted
\* (unshifted) value lies within date.min..date.max; the first call returns a
\* date exactly for those
RoundTripInRange ==
    /\ \A k \in 1..Len(date_shifts) :
           /\ dlast.op = "shift_date" =>
                  (dlast.ret.status = "returned"
                       <=> dlast.arg + date_shifts[k].shift_days <= MAXORD)
           /\ dlast.op = "unshift_date" =>
                  (dlast.ret.status = "returned"
                       <=> dlast.arg - date_shifts[k].shift_days >= MINORD)
    /\ (/\ dlast.op \in DateOps /\ dprev.op \in DateOps /\ dlast.op # dprev.op
        /\ dlast.inst = dprev.inst /\ dprev.ret = DateReturned(dlast.arg))
           => dlast.ret = DateReturned(dprev.arg)

\* C9 witness: both round trips were made, shift then unshift and unshift then
\* shift (the second after the first)
RoundTripMade ==
    /\ dprev.op = "unshift_date" /\ dlast.op = "shift_date"
    /\ dlast.inst = dprev.inst
    /\ dprev.ret = DateReturned(dlast.arg)
    /\ dprev.arg \in DateInputs

-----------------------------------------------------------------------------
(* Specification SpecFmt: the token text as a function of the number of rows *)
(* of its type.  The store is its row count only; a store with `count` rows  *)
(* of a type is what `count` calls with distinct new names leave behind.     *)

InitFmt ==
    /\ token_maps = <<>>
    /\ date_shifts = <<>>
    /\ svc = [i \in Inst |-> NewService(<<>>)]
    /\ pc = [i \in Inst |-> Idle]
    /\ last = NoCall
    /\ returned = {}
    /\ dlast = NoDateCall
    /\ dprev = NoDateCall
    /\ fmt \in [token_type : TokenType, count : 0..(MaxCount - 1), token : {NoneStr}]
    /\ imp = [autoflush |-> TRUE, req |-> [id \in ImportIds |-> NoReq]]
    /\ transactions = <<>>
    /\ prompts = {}
    /\ privacy = DefaultPrivacy
    /\ tlast = NoTxnCall
    /\ hlast = <<NoHashCall, NoHashCall>>
    /\ nlast = NoNextCall
    /\ recurring_groups = <<>>

\* the create branch of tokenize_merchant / tokenize_account / _tokenize_person
\* for a name not in the store: token_num is the count plus one (lines 65-70),
\* the token its formatted text, and the commit adds one row of the type
MintToken ==
    /\ fmt.count < MaxCount
    /\ fmt' = [fmt EXCEPT !.count = fmt.count + 1,
                          !.token = FormatToken(fmt.token_type, fmt.count + 1)]
    /\ UNCHANGED <<token_maps, date_shifts, svc, pc, last, returned, dlast, dprev, imp,
                   transactions, prompts, privacy, tlast, hlast, nlast, recurring_groups>>

NextFmt == MintToken

SpecFmt == InitFmt /\ [][NextFmt]_vars

\* C5: every issued token is MERCHANT_ followed by exactly 4 digits, ACCOUNT_
\* followed by exactly 3 digits or PERSON_ followed by exactly 3 digits,
\* whatever the number of tokens of that type already in the store
TokenWellFormed ==
    fmt.token # NoneStr =>
        /\ fmt.token_type = "merchant" =>
               /\ Len(fmt.token) = 6
               /\ SubSeq(fmt.token, 1, 2) = <<"MERCHANT", "_">>
        /\ fmt.token_type = "account" =>
               /\ Len(fmt.token) = 5
               /\ SubSeq(fmt.token, 1, 2) = <<"ACCOUNT", "_">>
        /\ fmt.token_type = "person" =>
               /\ Len(fmt.token) = 5
               /\ SubSeq(fmt.token, 1, 2) = <<"PERSON", "_">>
        /\ \A k \in 3..Len(fmt.token) : fmt.token[k] \in Digit

-----------------------------------------------------------------------------
(* Specification SpecImport: upload, confirm and the per-record loop of      *)
(* process_import ("plain") and process_import_with_ai ("ai"), one request    *)
(* at a time, each with its own session.  Rows a session has added    *)
(* and not committed are in `added`.                                         *)

InitImport ==
    /\ token_maps = <<>>
    /\ date_shifts = <<>>
    /\ svc = [i \in Inst |-> NewService(<<>>)]
    /\ pc = [i \in Inst |-> Idle]
    /\ last = NoCall
    /\ returned = {}
    /\ dlast = NoDateCall
    /\ dprev = NoDateCall
    /\ fmt = NoMint
    /\ imp \in [autoflush : BOOLEAN, req : {[id \in ImportIds |-> NoReq]}]
    /\ transactions = <<>>
    /\ prompts = {}
    /\ privacy = DefaultPrivacy
    /\ tlast = NoTxnCall
    /\ hlast = <<NoHashCall, NoHashCall>>
    /\ nlast = NoNextCall
    /\ recurring_groups = <<>>

ImportFrame == <<token_maps, date_shifts, svc, pc, last, returned, dlast, dprev, fmt>>

Busy(id) ==
    imp.req[id].stage \in {"check", "clean", "cleaning", "categorize", "categorizing",
                           "insert"}

\* the prompts in flight once the call of import `id` is answered
Answered(id) == {q \in prompts : q[1] # id}

\* PATCH /privacy/settings
update_privacy_settings(field, value) ==
    /\ privacy' = [privacy EXCEPT ![field] = value]
    /\ UNCHANGED <<ImportFrame, imp, transactions, prompts, tlast, hlast, nlast, recurring_groups>>

\* POST /imports/upload: save_upload and get_preview_with_ai for a CSV file up
\* to the await of detect_csv_format; import ids are fresh
upload_file(id, batch) ==
    /\ imp.req[id].stage = "none"
    /\ prompts' = IF ai_detect_format
                   THEN prompts \cup {<<id, FormatDetectionPrompt(batch, privacy)>>}
                   ELSE prompts
    /\ imp' = [imp EXCEPT !.req[id] = [NoReq EXCEPT !.stage = "detect", !.batch = batch]]
    /\ UNCHANGED <<ImportFrame, transactions, privacy, tlast, hlast, nlast, recurring_groups>>

\* get_preview_with_ai after the await: PENDING_IMPORTS[import_id] = {...}
preview_ready(id) ==
    /\ imp.req[id].stage = "detect"
    /\ prompts' = Answered(id)
    /\ imp' = [imp EXCEPT !.req[id].stage = "pending"]
    /\ UNCHANGED <<ImportFrame, transactions, privacy, tlast, hlast, nlast, recurring_groups>>

\* process_import / process_import_with_ai up to the record loop; parse_ok
\* is whether get_parser and parser.parse return the records.  The commit of
\* a second ImportLog row with the id of a stored one is rejected by the
\* primary key, before the try
confirm_import(id, account_id, mode, parse_ok) ==
    /\ ~Busy(id)
    /\ LET r == imp.req[id]
       IN  IF r.stage # "pending"
           THEN imp' = [imp EXCEPT !.req[id].raised = "ValueError"]
           ELSE IF mode = "ai" /\ account_id \in accounts
           THEN imp' = [imp EXCEPT !.req[id].raised = "AttributeError"]
           ELSE IF r.log.status # "none"
           THEN imp' = [imp EXCEPT !.req[id].raised = "IntegrityError"]
           ELSE IF ~parse_ok
           THEN imp' = [imp EXCEPT !.req[id] =
                            [NoReq EXCEPT !.stage = "done",
                                          !.log = [NoLog EXCEPT !.status = "failed"],
                                          !.raised = "Exception"]]
           ELSE imp' = [imp EXCEPT !.req[id] =
                            [r EXCEPT !.stage = "check", !.mode = mode,
                                      !.account_id = account_id,
                                      !.account_type = "bank",
                                      !.k = 1,
                                      !.log = [NoLog EXCEPT !.status = "processing"],
                                      !.raised = "none"]]
    /\ UNCHANGED <<ImportFrame, transactions, prompts, privacy, tlast, hlast, nlast, recurring_groups>>

\* the head of the loop body: generate_transaction_hash and is_duplicate
check_record(id) ==
    LET r == imp.req[id]
    IN  /\ r.stage = "check"
        /\ r.k <= Len(r.batch)
        /\ LET txn_data == r.batch[r.k]
               txn_hash == generate_transaction_hash(txn_data.date, txn_data.amount,
                                                     txn_data.raw_description, r.account_id)
               visible == transactions \o (IF imp.autoflush THEN r.added ELSE <<>>)
           IN  IF is_duplicate(visible, txn_hash)
               THEN imp' = [imp EXCEPT !.req[id].skipped = r.skipped + 1,
                                       !.req[id].k = r.k + 1]
               ELSE imp' = [imp EXCEPT !.req[id].stage =
                                IF r.mode = "ai" THEN "clean" ELSE "insert",
                                       !.req[id].clean_merchant = NoneStr,
                                       !.req[id].category_id = "none",
                                       !.req[id].ai_categorized = FALSE]
        /\ UNCHANGED <<ImportFrame, transactions, prompts, privacy, tlast, hlast, nlast, recurring_groups>>

\* clean_merchant_name(txn_data['raw_description']) up to its await
clean_merchant_name(id) ==
    LET r == imp.req[id]
    IN  /\ r.stage = "clean"
        /\ prompts' = IF ai_clean_merchants
                       THEN prompts \cup
                                {<<id, MerchantCleaningPrompt(r.batch[r.k].raw_description,
                                                              privacy)>>}
                       ELSE prompts
        /\ imp' = [imp EXCEPT !.req[id].stage = "cleaning"]
        /\ UNCHANGED <<ImportFrame, transactions, privacy, tlast, hlast, nlast, recurring_groups>>

\* the answer of clean_merchant_name: result.strip(), or None when the call
\* failed or cleaning is switched off
merchant_cleaned(id, answer) ==
    LET r == imp.req[id]
    IN  /\ r.stage = "cleaning"
        /\ prompts' = Answered(id)
        /\ imp' = [imp EXCEPT !.req[id].stage = "categorize",
                              !.req[id].clean_merchant =
                                  IF ai_clean_merchants THEN answer ELSE NoneStr]
        /\ UNCHANGED <<ImportFrame, transactions, privacy, tlast, hlast, nlast, recurring_groups>>

\* categorize_transaction(...) up to its await
categorize_transaction(id) ==
    LET r == imp.req[id]
        txn_data == r.batch[r.k]
    IN  /\ r.stage = "categorize"
        /\ prompts' = IF ai_auto_categorize
                       THEN prompts \cup
                                {<<id, CategorizationPrompt(r.clean_merchant,
                                                            txn_data.raw_description,
                                                            txn_data.amount.cents, txn_data.date,
                                                            r.account_type, privacy)>>}
                       ELSE prompts
        /\ imp' = [imp EXCEPT !.req[id].stage = "categorizing"]
        /\ UNCHANGED <<ImportFrame, transactions, privacy, tlast, hlast, nlast, recurring_groups>>

\* the answer of categorize_transaction and the confidence test
transaction_categorized(id, category_result) ==
    LET r == imp.req[id]
        result == IF ai_auto_categorize THEN category_result ELSE "none"
    IN  /\ r.stage = "categorizing"
        /\ prompts' = Answered(id)
        /\ imp' = [imp EXCEPT !.req[id].stage = "insert",
                              !.req[id].category_id =
                                  IF result = "high" THEN "cat" ELSE "none",
                              !.req[id].ai_categorized = (result = "high")]
        /\ UNCHANGED <<ImportFrame, transactions, privacy, tlast, hlast, nlast, recurring_groups>>

\* db.add(transaction), analyze_transaction_for_alerts, imported += 1.  The
\* alert analysis commits the session when it creates its settings row or an
\* alert (alert_commit); a commit the hash index rejects rolls the session
\* back and is swallowed by the except around the analysis.  With autoflush
\* the first query of the analysis flushes the pending rows; a flush the
\* hash index rejects leaves the session waiting for a rollback, every later
\* query and commit of the request raises, and so does the commit of the
\* FAILED status: the import log stays at PROCESSING and the function is left
\* before del PENDING_IMPORTS[import_id].
insert_record(id, alert_commit) ==
    LET r == imp.req[id]
        txn_data == r.batch[r.k]
        transaction ==
            [hash |-> generate_transaction_hash(txn_data.date, txn_data.amount,
                                                txn_data.raw_description, r.account_id),
             date |-> txn_data.date, amount |-> txn_data.amount,
             raw_description |-> txn_data.raw_description,
             clean_merchant |-> r.clean_merchant, category_id |-> r.category_id,
             account_id |-> r.account_id, ai_categorized |-> r.ai_categorized]
        added == Append(r.added, transaction)
    IN  /\ r.stage = "insert"
        /\ IF imp.autoflush /\ HashConflict(transactions, added)
           THEN /\ transactions' = transactions
                /\ imp' = [imp EXCEPT !.req[id] =
                               [NoReq EXCEPT !.stage = "pending",
                                             !.batch = r.batch,
                                             !.log = [NoLog EXCEPT !.status = "processing"],
                                             !.raised = "PendingRollbackError"]]
           ELSE IF ~alert_commit
           THEN /\ transactions' = transactions
                /\ imp' = [imp EXCEPT !.req[id].added = added,
                                      !.req[id].imported = r.imported + 1,
                                      !.req[id].k = r.k + 1,
                                      !.req[id].clean_merchant = NoneStr,
                                      !.req[id].category_id = "none",
                                      !.req[id].ai_categorized = FALSE,
                                      !.req[id].stage = "check"]
           ELSE /\ transactions' = IF HashConflict(transactions, added)
                                   THEN transactions ELSE transactions \o added
                /\ imp' = [imp EXCEPT !.req[id].added = <<>>,
                                      !.req[id].imported = r.imported + 1,
                                      !.req[id].k = r.k + 1,
                                      !.req[id].clean_merchant = NoneStr,
                                      !.req[id].category_id = "none",
                                      !.req[id].ai_categorized = FALSE,
                                      !.req[id].stage = "check"]
        /\ UNCHANGED <<ImportFrame, prompts, privacy, tlast, hlast, nlast, recurring_groups>>

\* after the loop: db.commit(), the import log, del PENDING_IMPORTS[import_id];
\* a commit the hash index rejects takes the outer except: FAILED and re-raise
finish_import(id) ==
    LET r == imp.req[id]
    IN  /\ r.stage = "check"
        /\ r.k > Len(r.batch)
        /\ IF HashConflict(transactions, r.added)
           THEN /\ transactions' = transactions
                /\ imp' = [imp EXCEPT !.req[id] =
                               [NoReq EXCEPT !.stage = "done",
                                             !.log = [NoLog EXCEPT !.status = "failed"],
                                             !.raised = "IntegrityError"]]
           ELSE /\ transactions' = transactions \o r.added
                /\ imp' = [imp EXCEPT !.req[id] =
                               [NoReq EXCEPT !.stage = "done",
                                             !.log = [status |-> "completed",
                                                      transactions_imported |-> r.imported,
                                                      transactions_skipped |-> r.skipped]]]
        /\ UNCHANGED <<ImportFrame, prompts, privacy, tlast, hlast, nlast, recurring_groups>>

PrivacyFields == {"obfuscation_enabled"}

ImportModes == {"ai", "plain"}

\* the requests one at a time: a file is uploaded once the import before it
\* has ended, and an import is confirmed while no other is in its loop
Serial(id) ==
    /\ \A j \in ImportIds : ~Busy(j)
    /\ imp.req[id].stage = "none" => \A j \in ImportIds : j < id => imp.req[j].stage = "done"

NextImport ==
    \/ \E field \in PrivacyFields, value \in BOOLEAN : update_privacy_settings(field, value)
    \/ \E id \in ImportIds, batch \in Batches : Serial(id) /\ upload_file(id, batch)
    \/ \E id \in ImportIds, account_id \in AccountIds, mode \in ImportModes,
          parse_ok \in BOOLEAN :
           Serial(id) /\ confirm_import(id, account_id, mode, parse_ok)
    \/ \E id \in ImportIds : check_record(id)
    \/ \E id \in ImportIds : preview_ready(id)
    \/ \E id \in ImportIds : clean_merchant_name(id)
    \/ \E id \in ImportIds, answer \in CleanAnswers : merchant_cleaned(id, answer)
    \/ \E id \in ImportIds : categorize_transaction(id)
    \/ \E id \in ImportIds, category_result \in CategoryResults :
           transaction_categorized(id, category_result)
    \/ \E id \in ImportIds, alert_commit \in BOOLEAN : insert_record(id, alert_commit)
    \/ \E id \in ImportIds : finish_import(id)

SpecImport == InitImport /\ [][NextImport]_vars

\* C10: when privacy obfuscation is enabled for the configured AI provider, no
\* prompt of the import pipeline carries a raw description, date or account
\* value of an imported record
PromptsCarryNoRawValue ==
    \A q \in prompts :
        LET p == q[2]
        IN  p.configured =>
            /\ \A r \in Records :
                   r.raw_description \notin p.descriptions /\ r.date \notin p.dates
            /\ p.account_types = {}

-----------------------------------------------------------------------------
(* Specification SpecTxn: whole calls of tokenize_transaction_for_ai on one   *)
(* instance.  Specification SpecUnknown: whole calls of tokenize_merchant,   *)
(* tokenize_account and get_unknown_merchants, one at a time, on two         *)
(* instances.                                                                *)

\* tokenize_transaction_for_ai, the whole call; `draw` is what random.randint
\* gives if the call has to create the date shift
DoTokenizeTransaction(i, transaction, include_category, draw) ==
    /\ pc[i].stage = "idle"
    /\ Len(token_maps) < MaxRows
    /\ \E r \in {TokenizeTransactionForAi(token_maps, date_shifts, svc[i], transaction,
                                          include_category, draw)} :
           /\ token_maps' = r.rows
           /\ date_shifts' = r.shifts
           /\ svc' = [svc EXCEPT ![i] = r.svc]
           /\ tlast' = TxnCall(i, "tokenize_transaction_for_ai", transaction,
                               TransactionAfterCall(transaction, r.result),
                               include_category,
                               IF r.status = "ok" THEN "returned" ELSE r.status,
                               IF r.status = "ok" THEN r.result ELSE EmptyDict,
                               <<>>, <<>>)
    /\ UNCHANGED <<pc, last, returned, dlast, dprev, fmt, imp, transactions, prompts,
                   privacy, hlast, nlast, recurring_groups>>

\* get_unknown_merchants, the whole call
DoGetUnknownMerchants(i, merchants) ==
    /\ pc[i].stage = "idle"
    /\ tlast' = TxnCall(i, "get_unknown_merchants", EmptyDict, EmptyDict, FALSE,
                        "returned", EmptyDict, merchants,
                        GetUnknownMerchants(token_maps, svc[i], merchants))
    /\ UNCHANGED <<token_maps, date_shifts, svc, pc, last, returned, dlast, dprev, fmt,
                   imp, transactions, prompts, privacy, hlast, nlast, recurring_groups>>

NextTxn ==
    \/ \E i \in Solo : Construct(i)
    \/ \E i \in Solo, transaction \in TxnInputs, include_category \in BOOLEAN,
          draw \in RandomShifts :
           DoTokenizeTransaction(i, transaction, include_category, draw)

SpecTxn == Init /\ [][NextTxn]_vars

-----------------------------------------------------------------------------
(* Claims about tokenize_transaction_for_ai, checked in SpecTxn *)

\* the text is a token of this type that the store has issued
IssuedToken(text, token_type) ==
    \E k \in 1..Len(token_maps) :
        token_maps[k].token_type = token_type /\ token_maps[k].token = text

\* the text is an issued merchant token followed by " [category]"
IssuedTokenWithCategory(text) ==
    \E k \in 1..Len(token_maps) :
        /\ token_maps[k].token_type = "merchant"
        /\ Len(text) > Len(token_maps[k].token) + 3
        /\ SubSeq(text, 1, Len(token_maps[k].token) + 2)
               = token_maps[k].token \o <<" ", "[">>
        /\ text[Len(text)] = "]"

SourceKeys == {"clean_merchant", "raw_description", "account_name", "account_type"}

\* C11: the result of tokenize_transaction_for_ai holds none of the keys
\* clean_merchant, raw_description, account_name, account_type, and its
\* merchant and account values are issued tokens (the merchant token
\* optionally followed by " [category]")
ResultHoldsNoSource ==
    (tlast.op = "tokenize_transaction_for_ai" /\ tlast.status = "returned") =>
        /\ DOMAIN tlast.result \cap SourceKeys = {}
        /\ "merchant" \in DOMAIN tlast.result =>
               /\ tlast.result["merchant"].t = "str"
               /\ \/ IssuedToken(tlast.result["merchant"].s, "merchant")
                  \/ IssuedTokenWithCategory(tlast.result["merchant"].s)
        /\ "account" \in DOMAIN tlast.result =>
               /\ tlast.result["account"].t = "str"
               /\ IssuedToken(tlast.result["account"].s, "account")

\* the keys a call rewrites or removes
HandledKeys ==
    {"merchant", "clean_merchant", "raw_description", "description", "date",
     "account_name", "account_type"}

\* every key of the input outside `handled` is in the result with its value
PassThrough(handled) ==
    \A k \in (DOMAIN tlast.input) \ handled :
        k \in DOMAIN tlast.result /\ tlast.result[k] = tlast.input[k]

\* C12: the call leaves the mapping it is given as it was, and every input
\* key other than merchant, clean_merchant, raw_description, description,
\* date, account_name and account_type is in the result with its value
InputKeptAndOthersPass ==
    tlast.op = "tokenize_transaction_for_ai" =>
        /\ tlast.after = tlast.input
        /\ tlast.status = "returned" => PassThrough(HandledKeys)

\* C12 as the code has it: the call leaves the mapping it is given as it was,
\* and every input key other than the seven above, and other than account
\* when account_name is given, is in the result with its value
InputKeptAndUnwrittenPass ==
    tlast.op = "tokenize_transaction_for_ai" =>
        /\ tlast.after = tlast.input
        /\ tlast.status = "returned" =>
               PassThrough(HandledKeys \cup
                           (IF "account_name" \in DOMAIN tlast.input
                            THEN {"account"} ELSE {}))

\* a call that rewrote merchant, date and account has returned, and the
\* amount it was given came through
RewritingCallReturned ==
    /\ tlast.op = "tokenize_transaction_for_ai"
    /\ tlast.status = "returned"
    /\ {"merchant", "date", "account_name", "amount"} \subseteq DOMAIN tlast.input
    /\ tlast.result["merchant"] # tlast.input["merchant"]
    /\ tlast.result["date"] # tlast.input["date"]
    /\ "account" \in DOMAIN tlast.result
    /\ tlast.result["amount"] = tlast.input["amount"]

-----------------------------------------------------------------------------
\* both instances fill the store, the second one asks
NextUnknown ==
    \/ \E i \in Inst : Construct(i)
    \/ \E i \in Inst, c \in UnknownCalls : DoTokenize(i, c)
    \/ \E i \in {2}, merchants \in MerchantLists : DoGetUnknownMerchants(i, merchants)

SpecUnknown == Init /\ [][NextUnknown]_vars

\* C15: get_unknown_merchants returns, in input order and as they were
\* given, exactly the input names whose trimmed upper-cased form has no
\* merchant token in the store, and the call leaves the store as it was
UnknownAreTheUntokenized ==
    [][(tlast' # tlast /\ tlast'.op = "get_unknown_merchants") =>
           LET NoToken(name) == ~HasName(token_maps, "merchant", Folded(name))
           IN  /\ tlast'.names = SelectSeq(tlast'.merchants, NoToken)
               /\ token_maps' = token_maps
               /\ date_shifts' = date_shifts]_vars

\* the question held a tokenized merchant in another spelling and a name
\* that only an account carries; the answer is the second one alone
KnownRespelledLeftOut ==
    /\ tlast.op = "get_unknown_merchants"
    /\ tlast.merchants = <<<<" ", "W">>, <<"f">>>>
    /\ tlast.names = <<<<"f">>>>
    /\ HasName(token_maps, "merchant", <<"W">>)
    /\ HasName(token_maps, "account", <<"F">>)

-----------------------------------------------------------------------------
(* Specification SpecPerson: tokenize_description on one instance, over      *)
(* payment texts of the four services.                                       *)

\* person names in capitals: two words, one word, and a single initial
PersonNames == {<<"JOHN", " ", "SMITH">>, <<"JOHN">>, <<"W">>}

VenmoPayment(name) == <<"VENMO", " ", "PAYMENT", " ">> \o name
ZelleTo(name) == <<"ZELLE", " ", "TO", " ">> \o name

\* the texts handed to tokenize_description: the two payment texts of each
\* name, a text with two payments of one service, a text of a third
\* service, a text of no service
PersonDescriptions ==
    {VenmoPayment(n) : n \in PersonNames} \cup {ZelleTo(n) : n \in PersonNames}
        \cup {<<"VENMO", " ", "JOHN", " ", "1", " ", "VENMO", " ", "SMITH">>,
              <<"PAYPAL", " ", "*", "JOHN">>, <<"w", " ", "1">>}

NextPerson ==
    \/ \E i \in Solo : Construct(i)
    \/ \E i \in Solo, d \in PersonDescriptions : DoTokenizeDescription(i, d)

SpecPerson == Init /\ [][NextPerson]_vars

\* sub occurs in t as a run of consecutive atoms
Contains(t, sub) ==
    \E p \in 1..(Len(t) - Len(sub) + 1) : SubSeq(t, p, p + Len(sub) - 1) = sub

\* a PERSON token of the store that occurs in both texts
SharedPersonToken(rows, a, b) ==
    \E k \in 1..Len(rows) :
        /\ rows[k].token_type = "person"
        /\ Contains(a, rows[k].token)
        /\ Contains(b, rows[k].token)

\* C13: for a person name N in capitals, tokenize_description of
\* "VENMO PAYMENT N" followed by tokenize_description of "ZELLE TO N" puts the
\* same PERSON token into both results, each result keeps its service keyword
\* and does not contain N, and the second call adds no token
SamePersonAcrossServices ==
    [][\A n \in PersonNames :
           (/\ last.op = "tokenize_description" /\ last.arg = VenmoPayment(n)
            /\ last'.op = "tokenize_description" /\ last'.arg = ZelleTo(n)
            /\ last.ret.status = "returned")
           => /\ last'.ret.status = "returned"
              /\ SharedPersonToken(token_maps', last.ret.value, last'.ret.value)
              /\ Head(last.ret.value) = "VENMO" /\ Head(last'.ret.value) = "ZELLE"
              /\ ~Contains(last.ret.value, n) /\ ~Contains(last'.ret.value, n)
              /\ token_maps' = token_maps]_vars

\* the patterns that match the upper-cased text
Matching(description) ==
    {k \in 1..Len(PERSON_PATTERNS) : Search(Upper(description), k).to # 0}

\* the text with the first match of pattern k, and nothing else, replaced by
\* the service label and a PERSON token of the store
FirstMatchReplaced(rows, description, k, text) ==
    LET m == Search(Upper(description), k)
    IN  \E j \in 1..Len(rows) :
            /\ rows[j].token_type = "person"
            /\ text = SubSeq(description, 1, m.from - 1)
                          \o PERSON_PATTERNS[k] \o <<" ">> \o rows[j].token
                          \o SubSeq(description, m.to, Len(description))

\* C14: one tokenize_description call replaces only the first match of a
\* pattern and leaves later matches of that pattern as they are; a text that
\* matches no pattern comes back unchanged and no token is created
OnlyFirstMatchReplaced ==
    [][(last' # last /\ last'.op = "tokenize_description"
            /\ last'.ret.status = "returned") =>
           /\ Matching(last'.arg) = {} =>
                  last'.ret.value = last'.arg /\ token_maps' = token_maps
           /\ \A k \in 1..Len(PERSON_PATTERNS) :
                  Matching(last'.arg) = {k} =>
                      FirstMatchReplaced(token_maps', last'.arg, k, last'.ret.value)]_vars

-----------------------------------------------------------------------------
(* Claims about process_import and the hash index *)

\* the number of rows that carry the hash
RowsWithHash(rows, hash) == Cardinality({k \in 1..Len(rows) : rows[k].hash = hash})

\* the hash process_import computes for record k of the batch of request r
RecordHash(r, k) ==
    generate_transaction_hash(r.batch[k].date, r.batch[k].amount,
                              r.batch[k].raw_description, r.account_id)

\* C16: a batch handed to process_import that holds the same record twice,
\* none of it stored before: the first is inserted and counted as imported,
\* the second is counted as skipped, and when the import ends exactly one
\* transaction with that hash is stored.  Import 1 starts on the empty store.
DuplicateInBatchSkipped ==
    [][LET r == imp.req[1]
       IN  (/\ Busy(1) /\ imp'.req[1].stage = "done"
            /\ r.mode = "plain" /\ Len(r.batch) = 2
            /\ RecordHash(r, 1) = RecordHash(r, 2))
           => /\ imp'.req[1].log = [status |-> "completed", transactions_imported |-> 1,
                                    transactions_skipped |-> 1]
              /\ RowsWithHash(transactions', RecordHash(r, 1)) = 1]_vars

\* C18: when the commit of an import is rejected by the hash index, the
\* import skips the rejected record, stores the other records of the batch
\* and ends COMPLETED
ConflictTreatedAsDuplicate ==
    [][\A id \in ImportIds :
           LET r == imp.req[id]
           IN  (/\ r.stage = "check" /\ r.k > Len(r.batch)
                /\ imp'.req[id].stage = "done"
                /\ HashConflict(transactions, r.added))
               => /\ imp'.req[id].log.status = "completed"
                  /\ \A k \in 1..Len(r.added) :
                         RowsWithHash(transactions', r.added[k].hash) = 1]_vars

-----------------------------------------------------------------------------
(* Specification SpecRace: two imports whose requests interleave step by     *)
(* step, each with its own session.                                          *)

\* the files of the two imports: one record each
RaceBatches == {b \in Batches : Len(b) = 1}

NextRace ==
    \/ \E id \in ImportIds, batch \in RaceBatches : upload_file(id, batch)
    \/ \E id \in ImportIds, account_id \in AccountIds, mode \in ImportModes :
           confirm_import(id, account_id, mode, TRUE)
    \/ \E id \in ImportIds : check_record(id)
    \/ \E id \in ImportIds : preview_ready(id)
    \/ \E id \in ImportIds : clean_merchant_name(id)
    \/ \E id \in ImportIds, answer \in CleanAnswers : merchant_cleaned(id, answer)
    \/ \E id \in ImportIds : categorize_transaction(id)
    \/ \E id \in ImportIds, category_result \in CategoryResults :
           transaction_categorized(id, category_result)
    \/ \E id \in ImportIds, alert_commit \in BOOLEAN : insert_record(id, alert_commit)
    \/ \E id \in ImportIds : finish_import(id)

SpecRace == InitImport /\ [][NextRace]_vars

\* C17: at most one stored transaction row per hash, however the steps of
\* two imports interleave
OneRowPerHash ==
    \A j, k \in 1..Len(transactions) :
        transactions[j].hash = transactions[k].hash => j = k

\* both imports passed is_duplicate for one hash before either stored its
\* row: the first to commit has stored it and ended COMPLETED, the commit of
\* the other was rejected by the index
RaceLoserRejected ==
    /\ Len(transactions) = 1
    /\ \E id, other \in ImportIds :
           /\ imp.req[id].log = [status |-> "completed", transactions_imported |-> 1,
                                 transactions_skipped |-> 0]
           /\ imp.req[other].raised = "IntegrityError"

-----------------------------------------------------------------------------
(* Specification SpecReimport: one file uploaded twice and imported twice    *)
(* by process_import into one account, the second import after the first     *)
(* has ended.  The alert settings row exists with its defaults and there is  *)
(* no recurring group, so the alert analysis of a plain import commits       *)
(* exactly for an amount above the unusual-merchant threshold.               *)

\* AlertSettings.unusual_merchant_threshold, Decimal("200.0"), in cents
unusual_merchant_threshold == 20000

\* analyze_transaction_for_alerts, check 3: a first-time merchant (always,
\* for a row without clean_merchant) and an amount above the threshold
unusual_merchant(txn_data) == Abs(txn_data.amount.cents) > unusual_merchant_threshold

\* the longest file imported twice
MaxFile == 3

\* the records of the file: a small payment and a large one
FileRecords ==
    {[date |-> 738000, amount |-> Decimal(0 - 5000, 2),
      raw_description |-> <<"VENMO", " ", "JOHN">>],
     [date |-> 738001, amount |-> Decimal(0 - 50000, 2), raw_description |-> <<"f">>]}

Files == UNION {[1..n -> FileRecords] : n \in 1..MaxFile}

NextReimport ==
    \/ \E batch \in Files : upload_file(1, batch)
    \/ imp.req[1].stage = "pending" /\ upload_file(2, imp.req[1].batch)
    \/ \E id \in ImportIds : preview_ready(id)
    \/ imp.req[2].stage = "pending" /\ confirm_import(1, <<"acct">>, "plain", TRUE)
    \/ imp.req[1].stage = "done" /\ confirm_import(2, <<"acct">>, "plain", TRUE)
    \/ \E id \in ImportIds : check_record(id)
    \/ \E id \in ImportIds :
           /\ imp.req[id].stage = "insert"
           /\ insert_record(id, unusual_merchant(imp.req[id].batch[imp.req[id].k]))
    \/ \E id \in ImportIds : finish_import(id)

SpecReimport == InitImport /\ [][NextReimport]_vars

-----------------------------------------------------------------------------
(* Specification SpecHash: calls of generate_transaction_hash *)

\* the arguments: two dates; 12.50 written with two places and with one, and
\* 12.00; a description in three spellings, another one, and one that holds
\* a "|"; an account id in three spellings, and one that holds a "|"
HashDates == {738000, 738001}
HashAmounts == {Decimal(1250, 2), Decimal(1250, 1), Decimal(1200, 2)}
HashDescriptions == {<<"w">>, <<" ", "W">>, <<"W", " ">>, <<"f">>, <<"w", "|", "f">>}
HashAccounts == {<<"c">>, <<"C">>, <<"c", " ">>, <<"f", "|", "c">>}

DoHash(txn_date, amount, raw_description, account_id) ==
    /\ hlast' = <<hlast[2], HashCall(txn_date, amount, raw_description, account_id)>>
    /\ UNCHANGED <<token_maps, date_shifts, svc, pc, last, returned, dlast, dprev, fmt,
                   imp, transactions, prompts, privacy, tlast, nlast, recurring_groups>>

NextHash ==
    \E txn_date \in HashDates, amount \in HashAmounts,
       raw_description \in HashDescriptions, account_id \in HashAccounts :
        DoHash(txn_date, amount, raw_description, account_id)

SpecHash == Init /\ [][NextHash]_vars

\* C20: two generate_transaction_hash calls with equal date, equal amount,
\* equal account and descriptions that are equal after trimming and case
\* folding return the same digest; the folding is applied to the
\* description only: account ids that differ, be it in case or blanks alone,
\* give different digests
SameDigestForSameTransaction ==
    LET a == hlast[1]
        b == hlast[2]
    IN  (a # NoHashCall /\ b # NoHashCall) =>
            /\ (/\ a.txn_date = b.txn_date
                /\ a.amount.cents = b.amount.cents
                /\ a.account_id = b.account_id
                /\ Folded(a.raw_description) = Folded(b.raw_description))
               => a.digest = b.digest
            /\ a.account_id # b.account_id => a.digest # b.digest

\* C21: the string generate_transaction_hash digests is an unambiguous
\* encoding: two calls whose dates, written amounts, stripped and lowered
\* descriptions or account ids differ never digest the same string
EncodingUnambiguous ==
    LET a == hlast[1]
        b == hlast[2]
    IN  (a # NoHashCall /\ b # NoHashCall) =>
            ((\/ a.txn_date # b.txn_date
              \/ a.amount # b.amount
              \/ Lower(Strip(a.raw_description)) # Lower(Strip(b.raw_description))
              \/ a.account_id # b.account_id)
             => a.digest # b.digest)

\* C22: two calls with the same date, description and account id, and
\* amounts of the same value (written with whatever number of decimal
\* places), return the same digest
AmountRenderedCanonically ==
    LET a == hlast[1]
        b == hlast[2]
    IN  (a # NoHashCall /\ b # NoHashCall) =>
            ((/\ a.txn_date = b.txn_date
              /\ a.raw_description = b.raw_description
              /\ a.account_id = b.account_id
              /\ a.amount.cents = b.amount.cents)
             => a.digest = b.digest)

-----------------------------------------------------------------------------
(* Specification SpecNext: calls of calculate_next_expected *)

\* the members of Frequency, and a value that is none of them
Frequencies == {"weekly", "biweekly", "monthly", "quarterly", "yearly"}
FrequencyValues == Frequencies \cup {"daily"}

\* last_date: the 15th, 29th, 30th and 31st of every month that has one, of a
\* common year, a leap year and the last year of the calendar
NextYears == {2023, 2024, MAXYEAR}
NextDays == {15, 29, 30, 31}
NextDates ==
    {MakeDate(y, m, d).value :
        y \in NextYears, m \in 1..12, d \in NextDays} \ {0}

DoNext(last_date, frequency) ==
    /\ nlast' = NextCall(last_date, frequency)
    /\ UNCHANGED <<token_maps, date_shifts, svc, pc, last, returned, dlast, dprev, fmt,
                   imp, transactions, prompts, privacy, tlast, hlast, recurring_groups>>

NextNext ==
    \E last_date \in NextDates, frequency \in FrequencyValues : DoNext(last_date, frequency)

SpecNext == Init /\ [][NextNext]_vars

\* the calendar month `months` after that of `d`, as months since year 0
TargetMonth(d, months) == YearOf(d) * 12 + (MonthOf(d) - 1) + months

MonthsOf(frequency) ==
    CASE frequency = "monthly" -> 1 [] frequency = "quarterly" -> 3 [] OTHER -> 12

\* `ret` is the day `months` months after `d`: the same day-of-month in the
\* target month, or day 28 where the target month has no such day
MonthsLater(d, months, ret) ==
    LET t == TargetMonth(d, months)
        y == t \div 12
        m == (t % 12) + 1
    IN  /\ ret.status = "returned"
        /\ YearOf(ret.value) = y
        /\ MonthOf(ret.value) = m
        /\ DayOf(ret.value) = (IF DayOf(d) <= DaysInMonth(y, m) THEN DayOf(d) ELSE 28)

\* C23 as stated: for monthly, quarterly and yearly frequency and every
\* last_date, calculate_next_expected returns the date 1, 3 or 12 months
\* later with the same day-of-month, or day 28 of the target month when it
\* has no such day
MonthsLaterForEveryDate ==
    nlast.frequency \in {"monthly", "quarterly", "yearly"}
        => MonthsLater(nlast.last_date, MonthsOf(nlast.frequency), nlast.ret)

\* C23: for monthly, quarterly and yearly frequency, calculate_next_expected
\* returns the date 1, 3 or 12 months later with the same day-of-month, or
\* day 28 of the target month when it has no such day, for every last_date
\* whose target month lies within year 9999; for a target month of year
\* 10000 it raises ValueError
MonthsLaterWithinCalendar ==
    nlast.frequency \in {"monthly", "quarterly", "yearly"}
        => IF TargetMonth(nlast.last_date, MonthsOf(nlast.frequency)) < (MAXYEAR + 1) * 12
           THEN MonthsLater(nlast.last_date, MonthsOf(nlast.frequency), nlast.ret)
           ELSE nlast.ret = DateRaised("ValueError")

\* a monthly call on August 31 has returned September 28, or a yearly call
\* on February 29 has returned February 28
ClampedOrRolledCallReturned ==
    /\ nlast.ret.status = "returned"
    /\ \/ nlast.frequency = "monthly" /\ DayOf(nlast.last_date) = 31
          /\ DayOf(nlast.ret.value) = 28 /\ MonthOf(nlast.ret.value) = 9
       \/ nlast.frequency = "yearly" /\ DayOf(nlast.last_date) = 29
          /\ MonthOf(nlast.last_date) = 2 /\ DayOf(nlast.ret.value) = 28

\* C24 as stated: calculate_next_expected returns last_date plus 7 days for
\* weekly, 14 days for biweekly and 30 days for a frequency outside the five
\* known ones, for every last_date, and never raises
DaysLaterForEveryDate ==
    /\ nlast # NoNextCall => nlast.ret.status = "returned"
    /\ nlast.frequency = "weekly" => nlast.ret = DateReturned(nlast.last_date + 7)
    /\ nlast.frequency = "biweekly" => nlast.ret = DateReturned(nlast.last_date + 14)
    /\ (nlast # NoNextCall /\ nlast.frequency \notin Frequencies)
           => nlast.ret = DateReturned(nlast.last_date + 30)

\* the days calculate_next_expected adds for a frequency that is not
\* monthly, quarterly or yearly
DaysOf(frequency) ==
    CASE frequency = "weekly" -> 7 [] frequency = "biweekly" -> 14 [] OTHER -> 30

\* C24: for weekly, biweekly and any frequency outside the five known ones,
\* calculate_next_expected returns last_date plus 7, 14 and 30 days when
\* that day is not after 9999-12-31, and raises OverflowError when it is; the
\* call changes nothing but its result
DaysLaterWithinCalendar ==
    (nlast # NoNextCall /\ nlast.frequency \notin {"monthly", "quarterly", "yearly"})
        => IF nlast.last_date + DaysOf(nlast.frequency) <= MAXORD
           THEN nlast.ret = DateReturned(nlast.last_date + DaysOf(nlast.frequency))
           ELSE nlast.ret = DateRaised("OverflowError")

\* a call with a frequency outside the known ones has returned
UnknownFrequencyReturned ==
    nlast.frequency = "daily" /\ nlast.ret = DateReturned(nlast.last_date + 30)

-----------------------------------------------------------------------------
(* Recurring groups.  In specification SpecRecurring a row of `transactions`
   holds the columns these operations read and write: id, date, is_recurring
   and recurring_group_id; a row of `recurring_groups` holds id, frequency,
   last_seen_date and next_expected_date *)

\* a NULL date column, and a NULL recurring_group_id
NoneDate == 0
NoneId == 0

\* the groups the table may hold at a time
MaxGroups == 2

\* str(uuid.uuid4()): an id no row of the table holds
NewGroupId(groups) ==
    CHOOSE id \in 1..MaxGroups : \A k \in 1..Len(groups) : groups[k].id # id

\* db.query(RecurringGroup).filter(RecurringGroup.id == group_id).first()
GroupExists(groups, group_id) == \E k \in 1..Len(groups) : groups[k].id = group_id
GroupOf(groups, group_id) == CHOOSE k \in 1..Len(groups) : groups[k].id = group_id

\* db.query(Transaction).filter(Transaction.id == transaction_id).first();
\* the id of a row is its position
TransactionExists(rows, transaction_id) == transaction_id \in 1..Len(rows)

\* query(Transaction).filter(...).update({recurring_group_id, is_recurring})
\* on the rows the filter selects
LinkRows(rows, selected, group_id, is_recurring) ==
    [k \in 1..Len(rows) |->
        IF k \in selected
        THEN [rows[k] EXCEPT !.recurring_group_id = group_id, !.is_recurring = is_recurring]
        ELSE rows[k]]

\* db.query(func.max(Transaction.date)).filter(Transaction.id.in_(ids)).scalar()
MostRecent(rows, transaction_ids) ==
    LET dates == {rows[k].date : k \in (1..Len(rows)) \cap transaction_ids}
    IN  IF dates = {} THEN NoneDate ELSE CHOOSE d \in dates : \A e \in dates : e <= d

\* the operations change the two tables and nothing else
RecurringFrame ==
    <<token_maps, date_shifts, svc, pc, last, returned, dlast, dprev, fmt, imp, prompts,
      privacy, tlast, hlast, nlast>>

\* create_recurring_group_from_detection.  An exception of
\* calculate_next_expected leaves the function before its commit
create_recurring_group_from_detection(detection) ==
    /\ Len(recurring_groups) < MaxGroups
    /\ LET id == NewGroupId(recurring_groups)
           group == [id |-> id, frequency |-> detection.frequency,
                     last_seen_date |-> NoneDate, next_expected_date |-> NoneDate]
           most_recent == MostRecent(transactions, detection.transaction_ids)
           next == calculate_next_expected(most_recent, detection.frequency)
       IN  IF detection.transaction_ids = {}
           THEN /\ recurring_groups' = Append(recurring_groups, group)
                /\ UNCHANGED transactions
           ELSE IF most_recent = NoneDate
           THEN /\ recurring_groups' = Append(recurring_groups, group)
                /\ transactions' = LinkRows(transactions, detection.transaction_ids, id, TRUE)
           ELSE IF next.status # "returned"
           THEN UNCHANGED <<recurring_groups, transactions>>
           ELSE /\ recurring_groups' =
                       Append(recurring_groups,
                              [group EXCEPT !.last_seen_date = most_recent,
                                            !.next_expected_date = next.value])
                /\ transactions' = LinkRows(transactions, detection.transaction_ids, id, TRUE)
    /\ UNCHANGED RecurringFrame

\* mark_transaction_recurring; new_frequency is a Frequency or "None".  The
\* three ValueError exits and an exception of calculate_next_expected leave
\* the function before its commit
mark_transaction_recurring(transaction_id, recurring_group_id, create_new, new_frequency) ==
    /\ IF ~TransactionExists(transactions, transaction_id)
       THEN UNCHANGED <<recurring_groups, transactions>>
       ELSE IF recurring_group_id # NoneId /\ ~GroupExists(recurring_groups, recurring_group_id)
       THEN UNCHANGED <<recurring_groups, transactions>>
       ELSE IF recurring_group_id = NoneId /\ ~create_new
       THEN UNCHANGED <<recurring_groups, transactions>>
       ELSE IF recurring_group_id = NoneId /\ Len(recurring_groups) >= MaxGroups
       THEN FALSE
       ELSE
         LET transaction == transactions[transaction_id]
             frequency == IF new_frequency = "None" THEN "monthly" ELSE new_frequency
             created == calculate_next_expected(transaction.date, frequency)
             groups == IF recurring_group_id # NoneId THEN recurring_groups
                       ELSE Append(recurring_groups,
                                   [id |-> NewGroupId(recurring_groups),
                                    frequency |-> frequency,
                                    last_seen_date |-> transaction.date,
                                    next_expected_date |-> created.value])
             k == IF recurring_group_id # NoneId
                  THEN GroupOf(recurring_groups, recurring_group_id)
                  ELSE Len(groups)
             group == groups[k]
             later == group.last_seen_date = NoneDate \/ transaction.date > group.last_seen_date
             next == calculate_next_expected(transaction.date, group.frequency)
         IN  IF \/ recurring_group_id = NoneId /\ created.status # "returned"
                \/ later /\ next.status # "returned"
             THEN UNCHANGED <<recurring_groups, transactions>>
             ELSE /\ transactions' =
                         [transactions EXCEPT ![transaction_id].recurring_group_id = group.id,
                                              ![transaction_id].is_recurring = TRUE]
                  /\ recurring_groups' =
                         IF later
                         THEN [groups EXCEPT ![k].last_seen_date = transaction.date,
                                             ![k].next_expected_date = next.value]
                         ELSE groups
    /\ UNCHANGED RecurringFrame

\* unmark_transaction_recurring
unmark_transaction_recurring(transaction_id) ==
    /\ IF TransactionExists(transactions, transaction_id)
       THEN transactions' = [transactions EXCEPT ![transaction_id].recurring_group_id = NoneId,
                                                 ![transaction_id].is_recurring = FALSE]
       ELSE UNCHANGED transactions
    /\ UNCHANGED <<recurring_groups, RecurringFrame>>

\* PATCH /recurring/{group_id} with a RecurringGroupUpdate that sets
\* `frequency`; the other fields of the update are columns the model leaves out
update_recurring_group(group_id, frequency) ==
    /\ IF GroupExists(recurring_groups, group_id)
       THEN recurring_groups' =
                [recurring_groups EXCEPT ![GroupOf(recurring_groups, group_id)].frequency =
                                             frequency]
       ELSE UNCHANGED recurring_groups
    /\ UNCHANGED <<transactions, RecurringFrame>>

\* DELETE /recurring/{group_id}
delete_recurring_group(group_id) ==
    /\ IF GroupExists(recurring_groups, group_id)
       THEN LET linked == {k \in 1..Len(transactions) :
                               transactions[k].recurring_group_id = group_id}
            IN  /\ transactions' = LinkRows(transactions, linked, NoneId, FALSE)
                /\ recurring_groups' =
                       SelectSeq(recurring_groups, LAMBDA g : g.id # group_id)
       ELSE UNCHANGED <<recurring_groups, transactions>>
    /\ UNCHANGED RecurringFrame

\* PATCH /transactions/{transaction_id} with a TransactionUpdate that sets
\* is_recurring to true or false
update_transaction(transaction_id, is_recurring) ==
    /\ IF TransactionExists(transactions, transaction_id)
       THEN transactions' = [transactions EXCEPT ![transaction_id].is_recurring = is_recurring]
       ELSE UNCHANGED transactions
    /\ UNCHANGED <<recurring_groups, RecurringFrame>>

-----------------------------------------------------------------------------
(* Specification SpecRecurring: the recurring-group operations on a store of
   two transactions *)

\* the transactions: 2024-01-31 and 2024-02-15, neither marked
TransactionDates == <<MakeDate(2024, 1, 31).value, MakeDate(2024, 2, 15).value>>

InitRecurring ==
    /\ token_maps = <<>>
    /\ date_shifts = <<>>
    /\ svc = [i \in Inst |-> NewService(<<>>)]
    /\ pc = [i \in Inst |-> Idle]
    /\ last = NoCall
    /\ returned = {}
    /\ dlast = NoDateCall
    /\ dprev = NoDateCall
    /\ fmt = NoMint
    /\ imp = [autoflush |-> TRUE, req |-> [id \in ImportIds |-> NoReq]]
    /\ transactions = [k \in 1..Len(TransactionDates) |->
                          [id |-> k, date |-> TransactionDates[k], is_recurring |-> FALSE,
                           recurring_group_id |-> NoneId]]
    /\ prompts = {}
    /\ privacy = DefaultPrivacy
    /\ tlast = NoTxnCall
    /\ hlast = <<NoHashCall, NoHashCall>>
    /\ nlast = NoNextCall
    /\ recurring_groups = <<>>

\* the ids a request may name: those of the two transactions and one more
TransactionIds == 1..(Len(TransactionDates) + 1)
GroupIds == 1..MaxGroups

\* the frequencies the requests carry
RecurringFrequencies == {"weekly", "monthly"}

\* detection results: a frequency and the transactions of the pattern
Detections ==
    [frequency : RecurringFrequencies, transaction_ids : SUBSET (1..Len(TransactionDates))]

NextRecurring ==
    \/ \E detection \in Detections : create_recurring_group_from_detection(detection)
    \/ \E transaction_id \in TransactionIds, recurring_group_id \in GroupIds \cup {NoneId},
          create_new \in BOOLEAN, new_frequency \in RecurringFrequencies \cup {"None"} :
           mark_transaction_recurring(transaction_id, recurring_group_id, create_new,
                                      new_frequency)
    \/ \E transaction_id \in TransactionIds : unmark_transaction_recurring(transaction_id)
    \/ \E group_id \in GroupIds, frequency \in RecurringFrequencies :
           update_recurring_group(group_id, frequency)
    \/ \E group_id \in GroupIds : delete_recurring_group(group_id)
    \/ \E transaction_id \in TransactionIds, is_recurring \in BOOLEAN :
           update_transaction(transaction_id, is_recurring)

SpecRecurring == InitRecurring /\ [][NextRecurring]_vars

\* the group rows with a last_seen_date have the projection of that date as
\* their next_expected_date
ProjectionKept(groups) ==
    \A k \in 1..Len(groups) :
        groups[k].last_seen_date # NoneDate
            => calculate_next_expected(groups[k].last_seen_date, groups[k].frequency)
                   = DateReturned(groups[k].next_expected_date)

\* C25: every group whose last_seen_date is set has next_expected_date =
\* calculate_next_expected(last_seen_date, frequency), and the last_seen_date
\* of a group changes only to a later date (or from none to a date) that is
\* the date of a transaction linked to the group
NextExpectedFollowsLastSeen ==
    [][/\ ProjectionKept(recurring_groups')
       /\ \A j \in 1..Len(recurring_groups), k \in 1..Len(recurring_groups') :
              (/\ recurring_groups[j].id = recurring_groups'[k].id
               /\ recurring_groups[j].last_seen_date # recurring_groups'[k].last_seen_date)
              => /\ recurring_groups'[k].last_seen_date > recurring_groups[j].last_seen_date
                 /\ \E t \in 1..Len(transactions') :
                        /\ transactions'[t].recurring_group_id = recurring_groups'[k].id
                        /\ transactions'[t].date = recurring_groups'[k].last_seen_date]_vars

\* C30: a transaction has is_recurring = true if and only if its
\* recurring_group_id refers to an existing recurring group
RecurringIffLinked ==
    \A t \in 1..Len(transactions) :
        transactions[t].is_recurring
            <=> GroupExists(recurring_groups, transactions[t].recurring_group_id)

-----------------------------------------------------------------------------
(* Specification SpecShared: two service instances on one store, each call
   run to completion; an instance is constructed anew at any time between
   calls *)

\* the texts handed to detokenize: a token of the store, or a word
StoredTokens(rows) == {rows[k].token : k \in 1..Len(rows)} \cup {<<"w">>}

NextShared ==
    \/ \E i \in Inst : Construct(i)
    \/ \E i \in Inst, c \in UnknownCalls : DoTokenize(i, c)
    \/ \E i \in Inst, text \in StoredTokens(token_maps) : DoDetokenize(i, text)

SpecShared == Init /\ [][NextShared]_vars

\* C26: every instance resolves every token of the store, whichever
\* instance issued it and whenever the instance was constructed: a tokenize
\* call for a name that has a token returns that token and adds no row, and
\* detokenize of a stored token returns the original value of its row
StoredTokenResolvedByAll ==
    [][(last' # last) =>
          /\ \A k \in 1..Len(token_maps) :
                 (/\ \/ last'.op = "tokenize_merchant" /\ token_maps[k].token_type = "merchant"
                     \/ last'.op = "tokenize_account" /\ token_maps[k].token_type = "account"
                  /\ Folded(token_maps[k].original_value) = Folded(last'.arg))
                 => /\ last'.ret = Returned(token_maps[k].token)
                    /\ token_maps' = token_maps
          /\ \A k \in 1..Len(token_maps) :
                 (last'.op = "detokenize" /\ last'.arg = token_maps[k].token)
                 => last'.ret = Returned(token_maps[k].original_value)]_vars

-----------------------------------------------------------------------------
(* Imports that fail, imports that complete, and the life of an import id *)

ImportProcessedOnce ==
    [][\A id \in ImportIds :
          LET r == imp.req[id]
              q == imp'.req[id]
          IN  /\ r.log.status \in {"completed", "failed"} => q.log = r.log
              /\ (Busy(id) /\ q.stage \notin {"check", "clean", "cleaning", "categorize",
                                              "categorizing", "insert"})
                     => (q.log.status \in {"completed", "failed"} /\ q.stage = "done")
              /\ (r.stage = "done" /\ q # r)
                     => (q = [r EXCEPT !.raised = "ValueError"]
                         /\ transactions' = transactions)]_vars

====
